---- MODULE Spec2Model ----
(***************************************************************************)
(* Model of the clustering pipeline of cluster_analysis.py: the text       *)
(* normaliser clean_text, the feature extractor, the partitioner, the      *)
(* summariser, result persistence, and main, which runs them in sequence;  *)
(* and of the stages around it: the prompt stage                           *)
(* (generate_cluster_prompts.py, pages/2_Generate_Prompts.py), the         *)
(* metadata files of the generators (urban_future_generator.py,            *)
(* urban_design_generator.py, directory_utils.py) and the image analysis   *)
(* loop (image_processor.py). Texts that are normalised or tokenised are   *)
(* sequences of one-character strings.                                     *)
(***************************************************************************)
EXTENDS Integers, Sequences, FiniteSets, TLC

VARIABLES
    \* the harness that applies clean_text to assembled texts
    frags, tpc, cleaned, recleaned,
    \* one invocation of main()
    pc, err, n_clusters, analysis_results, features, feature_names,
    cluster_labels, cluster_centers, cluster_summaries, fit_called,
    \* the matrix perform_clustering hands to KMeans.fit_predict
    scaled_features,
    \* results/cluster_results/cluster_analysis_results.json on disk, and
    \* (history) the content that the run's open(..., "w") discarded
    output_file, overwritten,
    \* the harness that calls perform_clustering again on the same arguments
    rerun,
    \* the prompt stage: where it is, who runs it (the script's main or the
    \* page's generate_cluster_prompts), its locals cluster_data and prompts,
    \* the clusters the loop has yet to take, and cluster_prompts.json
    gpc, entry_point, cluster_data, pending, prompts, prompts_file,
    \* a metadata file, the module whose load_metadata and save_metadata are
    \* called on it, and (history) the last calls: what was saved, what was
    \* loaded, the file as load_metadata found it, the entries of the
    \* successful transform_street_view calls, and the number of calls
    mpc, module, metadata_file, saved, loaded, file_before_load, transformed,
    calls,
    \* process_images: where a run is, the input directory,
    \* analysis_results.json, the locals results and image_files, the
    \* processed images on disk, and (history) the file as the run found it,
    \* the images the run's loop has taken and the number of runs
    ipc, input_dir, results_file, image_results, image_files, processed_images,
    file_at_start, attempted, runs

tvars == <<frags, tpc, cleaned, recleaned>>

pvars == <<pc, err, n_clusters, analysis_results, features, feature_names,
           cluster_labels, cluster_centers, cluster_summaries, fit_called,
           output_file, overwritten, scaled_features>>

cvars == <<rerun>>

gvars == <<gpc, entry_point, cluster_data, pending, prompts, prompts_file>>

mvars == <<mpc, module, metadata_file, saved, loaded, file_before_load,
           transformed, calls>>

ivars == <<ipc, input_dir, results_file, image_results, image_files,
           processed_images,
           file_at_start, attempted, runs>>

\* The variables of the stages around the clustering pipeline.
ovars == <<gvars, mvars, ivars>>

vars == <<tvars, pvars, cvars, ovars>>

(***************************************************************************)
(* Characters and Python's str primitives                                  *)
(***************************************************************************)

\* str.split() and str.strip() without arguments act on whitespace.
Whitespace == {" ", "\t"}

LowerCaseLetters == <<"a", "b", "c", "d", "e", "f", "g", "h", "i", "j", "k", "l", "m", "n", "o", "p", "q", "r", "s", "t", "u", "v", "w", "x", "y", "z">>
UpperCaseLetters == <<"A", "B", "C", "D", "E", "F", "G", "H", "I", "J", "K", "L", "M", "N", "O", "P", "Q", "R", "S", "T", "U", "V", "W", "X", "Y", "Z">>

UpperCase == {UpperCaseLetters[i] : i \in 1..Len(UpperCaseLetters)}

\* str.lower() on one character.
LowerChar(c) ==
    IF c \in UpperCase
    THEN LowerCaseLetters[CHOOSE i \in 1..Len(UpperCaseLetters) : UpperCaseLetters[i] = c]
    ELSE c

lower(s) == [i \in 1..Len(s) |-> LowerChar(s[i])]

RECURSIVE SplitAcc(_, _, _, _)
SplitAcc(s, seps, cur, acc) ==
    IF s = <<>> THEN Append(acc, cur)
    ELSE IF Head(s) \in seps
         THEN SplitAcc(Tail(s), seps, <<>>, Append(acc, cur))
         ELSE SplitAcc(Tail(s), seps, Append(cur, Head(s)), acc)

\* str.split(sep): every separator splits, empty pieces are kept.
split_sep(s, sep) == SplitAcc(s, {sep}, <<>>, <<>>)

\* str.split(): runs of whitespace split, no empty piece is returned.
split_ws(s) == SelectSeq(SplitAcc(s, Whitespace, <<>>, <<>>), LAMBDA x : x # <<>>)

RECURSIVE join(_, _)
\* sep.join(parts)
join(sep, parts) ==
    IF parts = <<>> THEN <<>>
    ELSE IF Len(parts) = 1 THEN parts[1]
    ELSE parts[1] \o sep \o join(sep, Tail(parts))

RECURSIVE lstrip(_)
lstrip(s) == IF s # <<>> /\ Head(s) \in Whitespace THEN lstrip(Tail(s)) ELSE s

RECURSIVE rstrip(_)
rstrip(s) ==
    IF s # <<>> /\ s[Len(s)] \in Whitespace THEN rstrip(SubSeq(s, 1, Len(s) - 1)) ELSE s

strip_first_only(s) == lstrip(s)

\* str.strip()
strip(s) == rstrip(lstrip(s))

RECURSIVE replace_count(_, _, _, _)
\* str.replace(old, new, count): left to right, non-overlapping.
replace_count(s, old, new, count) ==
    IF count = 0 \/ Len(s) < Len(old) THEN s
    ELSE IF SubSeq(s, 1, Len(old)) = old
         THEN new \o replace_count(SubSeq(s, Len(old) + 1, Len(s)), old, new, count - 1)
         ELSE <<Head(s)>> \o replace_count(Tail(s), old, new, count)

replace_once(s, old, new) == replace_count(s, old, new, 1)

\* str.replace(old, new): every non-overlapping occurrence, left to right.
replace(s, old, new) == replace_count(s, old, new, -1)

AndToken == <<" ", "a", "n", "d", " ">>
CommaSpace == <<",", " ">>

(***************************************************************************)
(* clean_text                                                              *)
(***************************************************************************)

clean_text(text) ==
    LET t1 == replace(text, AndToken, CommaSpace)
        t2 == join(<<" ">>, split_ws(t1))
        pieces == split_sep(t2, ",")
        stripped == [i \in 1..Len(pieces) |-> strip(pieces[i])]
        t3 == join(CommaSpace, SelectSeq(stripped, LAMBDA x : x # <<>>))
    IN  lower(t3)

(***************************************************************************)
(* Inputs of clean_text: texts assembled from fragments                    *)
(***************************************************************************)

MaxFrags == 5

WordFragments == {<<"b">>, <<"a", "n", "d">>}

Fragments ==
    WordFragments \cup
    {<<"B">>, <<"A", "N", "D">>, <<" ">>, <<"\t">>, <<",">>, AndToken}

RECURSIVE Flatten(_)
Flatten(ss) == IF ss = <<>> THEN <<>> ELSE Head(ss) \o Flatten(Tail(ss))

text == Flatten(frags)

NoText == <<"\n">>

(***************************************************************************)
(* Records and json.loads                                                  *)
(***************************************************************************)

\* An "analysis" text that json.loads rejects.
NotJson == [text |-> <<"n", "o", "t", " ", "j", "s", "o", "n">>]

\* json.loads(result["analysis"]): the JSON object as a record, keyed by the
\* attribute names; raises JSONDecodeError when the text is not JSON.
json_loads_raises(s) == s = NotJson
json_loads(s) == s

Range(f) == {f[x] : x \in DOMAIN f}

Min(a, b) == IF a < b THEN a ELSE b

RECURSIVE Sum(_)
Sum(ns) == IF ns = <<>> THEN 0 ELSE Head(ns) + Sum(Tail(ns))

(***************************************************************************)
(* extract_features                                                        *)
(***************************************************************************)

\* The keys of the vectorizers dict, in insertion order.
vectorizers ==
    <<"architectural_style", "futuristic_elements", "mood", "color_palette",
      "dominant_materials">>

\* TfidfVectorizer(max_features=...)
max_features ==
    [architectural_style |-> 25, futuristic_elements |-> 25, mood |-> 15,
     color_palette |-> 10, dominant_materials |-> 10]

uniform_weights ==
    [architectural_style |-> 10, futuristic_elements |-> 10, mood |-> 10,
     color_palette |-> 10, dominant_materials |-> 10]

\* feature_weights, in tenths.
feature_weights ==
    [architectural_style |-> 15, futuristic_elements |-> 15, mood |-> 12,
     color_palette |-> 7, dominant_materials |-> 7]

\* The characters that \w of the default token_pattern does not match.
NonWordChars == Whitespace \cup {","}

\* TfidfVectorizer's analyzer: lower-case, then the matches of
\* (?u)\b\w\w+\b, the maximal runs of two or more word characters.
tokenize(doc) ==
    SelectSeq(SplitAcc(lower(doc), NonWordChars, <<>>, <<>>), LAMBDA t : Len(t) >= 2)

\* Lines 82-86: raises on the first record whose analysis is not JSON or
\* lacks one of the five attribute keys.
extractable(result) ==
    /\ ~json_loads_raises(result.analysis)
    /\ Range(vectorizers) \subseteq DOMAIN json_loads(result.analysis)

RECURSIVE feature_texts(_, _)
\* Lines 82-86 for one attribute: the cleaned text of every record, in order.
feature_texts(results, feature) ==
    IF results = <<>> THEN <<>>
    ELSE <<clean_text(json_loads(Head(results).analysis)[feature])>>
         \o feature_texts(Tail(results), feature)

RECURSIVE analyzed(_)
\* The token list of every document of a corpus.
analyzed(docs) ==
    IF docs = <<>> THEN <<>> ELSE <<tokenize(Head(docs))>> \o analyzed(Tail(docs))

RECURSIVE all_texts(_)
all_texts(results) ==
    IF results = <<>> THEN <<>>
    ELSE LET analysis == json_loads(Head(results).analysis)
         IN  <<clean_text(analysis[vectorizers[1]]) \o <<" ">>
               \o clean_text(analysis[vectorizers[2]]) \o <<" ">>
               \o clean_text(analysis[vectorizers[3]]) \o <<" ">>
               \o clean_text(analysis[vectorizers[4]]) \o <<" ">>
               \o clean_text(analysis[vectorizers[5]])>>
             \o all_texts(Tail(results))

shared_corpora(results) ==
    LET shared == analyzed(all_texts(results))
    IN  <<shared, shared, shared, shared, shared>>

\* corpora[k]: the analyzed corpus vectorizers[k] is fitted on.
corpora(results) ==
    <<analyzed(feature_texts(results, vectorizers[1])),
      analyzed(feature_texts(results, vectorizers[2])),
      analyzed(feature_texts(results, vectorizers[3])),
      analyzed(feature_texts(results, vectorizers[4])),
      analyzed(feature_texts(results, vectorizers[5]))>>

term_count(t, tokens) == Cardinality({i \in 1..Len(tokens) : tokens[i] = t})

\* The terms of a corpus, and each term's total and document frequency.
corpus_terms(corpus) == UNION {Range(corpus[i]) : i \in 1..Len(corpus)}
term_frequency(t, corpus) == Sum([i \in 1..Len(corpus) |-> term_count(t, corpus[i])])
document_frequency(t, corpus) ==
    Cardinality({i \in 1..Len(corpus) : t \in Range(corpus[i])})

unlimited_features(corpus, limit) == {corpus_terms(corpus)}

\* CountVectorizer._limit_features: with more than max_features terms, the
\* max_features terms of highest total frequency are kept; argsort breaks
\* ties among equally frequent terms in no specified order.
limit_features(corpus, limit) ==
    LET terms == corpus_terms(corpus)
        tfs == [t \in terms |-> term_frequency(t, corpus)]
    IN  IF Cardinality(terms) <= limit THEN {terms}
        ELSE {kept \in SUBSET terms :
                /\ Cardinality(kept) = limit
                /\ \A t \in kept : \A u \in terms \ kept : tfs[t] >= tfs[u]}

\* The rank of each lower-case letter in the alphabet.
CharRank ==
    [c \in Range(LowerCaseLetters) |->
        CHOOSE i \in 1..Len(LowerCaseLetters) : LowerCaseLetters[i] = c]

RECURSIVE StrLess(_, _)
StrLess(a, b) ==
    IF a = <<>> THEN b # <<>>
    ELSE IF b = <<>> THEN FALSE
    ELSE IF Head(a) = Head(b) THEN StrLess(Tail(a), Tail(b))
    ELSE CharRank[Head(a)] < CharRank[Head(b)]

RECURSIVE SetToSeq(_)
SetToSeq(S) ==
    IF S = {} THEN <<>>
    ELSE LET x == CHOOSE y \in S : TRUE IN <<x>> \o SetToSeq(S \ {x})

\* The fitted vocabulary is indexed in alphabetical order.
sorted(terms) == SortSeq(SetToSeq(terms), StrLess)

\* One entry of vectorizer.fit_transform(...).toarray() * weight: the TF-IDF
\* score is a function of the term's count in the document, its document
\* frequency and the row's other counts; the entry keeps what determines it.
weighted_tfidf(tokens, term, corpus, weight) ==
    [tf |-> term_count(term, tokens), df |-> document_frequency(term, corpus),
     weight |-> weight]

\* Lines 93-96 for one attribute: one row per document, one column per term.
feature_matrix(corpus, vocabulary, weight) ==
    [i \in 1..Len(corpus) |->
        [j \in 1..Len(vocabulary) |->
            weighted_tfidf(corpus[i], vocabulary[j], corpus, weight)]]

RECURSIVE hstack_reversed(_, _)
hstack_reversed(blocks, i) ==
    IF blocks = <<>> THEN <<>> ELSE hstack_reversed(Tail(blocks), i) \o Head(blocks)[i]

RECURSIVE hstack_row(_, _)
hstack_row(blocks, i) ==
    IF blocks = <<>> THEN <<>> ELSE Head(blocks)[i] \o hstack_row(Tail(blocks), i)

\* np.hstack of the per-attribute matrices, in the order of vectorizers.
hstack(blocks, n) == [i \in 1..n |-> hstack_row(blocks, i)]

FeatureChars ==
    [architectural_style |-> <<"a", "r", "c", "h", "i", "t", "e", "c", "t", "u", "r", "a", "l", "_", "s", "t", "y", "l", "e">>,
     futuristic_elements |-> <<"f", "u", "t", "u", "r", "i", "s", "t", "i", "c", "_", "e", "l", "e", "m", "e", "n", "t", "s">>,
     mood |-> <<"m", "o", "o", "d">>,
     color_palette |-> <<"c", "o", "l", "o", "r", "_", "p", "a", "l", "e", "t", "t", "e">>,
     dominant_materials |-> <<"d", "o", "m", "i", "n", "a", "n", "t", "_", "m", "a", "t", "e", "r", "i", "a", "l", "s">>]

\* f"{feature}_{name}"
prefixed_name(feature, name) == FeatureChars[feature] \o <<"_">> \o name

RECURSIVE all_feature_names(_, _)
\* Lines 105-107: vocab[k] is the sorted vocabulary of vectorizers[k].
all_feature_names(vocab, k) ==
    IF k > Len(vectorizers) THEN <<>>
    ELSE [j \in 1..Len(vocab[k]) |-> prefixed_name(vectorizers[k], vocab[k][j])]
         \o all_feature_names(vocab, k + 1)

\* The vocabularies the five fits can end with: one kept set per attribute.
fitted_vocabularies(corpus) ==
    {<<sorted(v1), sorted(v2), sorted(v3), sorted(v4), sorted(v5)>> :
        v1 \in limit_features(corpus[1], max_features[vectorizers[1]]),
        v2 \in limit_features(corpus[2], max_features[vectorizers[2]]),
        v3 \in limit_features(corpus[3], max_features[vectorizers[3]]),
        v4 \in limit_features(corpus[4], max_features[vectorizers[4]]),
        v5 \in limit_features(corpus[5], max_features[vectorizers[5]])}

\* CountVectorizer raises "empty vocabulary" when a corpus has no term.
empty_vocabulary(corpus) ==
    \E k \in 1..Len(vectorizers) : corpus_terms(corpus[k]) = {}

combined_matrix(corpus, vocab, n) ==
    hstack([k \in 1..Len(vectorizers) |->
               feature_matrix(corpus[k], vocab[k], feature_weights[vectorizers[k]])],
           n)

(***************************************************************************)
(* perform_clustering                                                      *)
(***************************************************************************)

\* KMeans.fit_predict raises when n_clusters is not a positive integer or
\* exceeds the number of samples.
kmeans_raises(X, k) == k < 1 \/ k > Len(X)

labels_out_of_range(X, k) == [1..Len(X) -> 0..k]

labels_of_any_centres(X, k) ==
    {l \in [1..Len(X) -> 0..(k - 1)] :
        \A i, j \in 1..Len(X) : X[i] = X[j] => l[i] = l[j]}

(***************************************************************************)
(* StandardScaler                                                          *)
(***************************************************************************)

Columns(X) == IF X = <<>> THEN {} ELSE 1..Len(X[1])

\* The columns whose scores are the same in every row: the term is in no
\* row, or the rows hold the same counts in every column of the column's
\* attribute (the columns that carry its weight), so that the normalised
\* scores of the attribute agree.
equal_columns(X) ==
    {j \in Columns(X) :
        \/ \A i \in 1..Len(X) : X[i][j].tf = 0
        \/ \A i \in 1..Len(X) : \A j2 \in Columns(X) :
              X[1][j2].weight = X[1][j].weight => X[i][j2] = X[1][j2]}

\* The columns whose scores differ between two rows: the term is in one row
\* and not in the other.
differing_columns(X) ==
    {j \in Columns(X) :
        \E i1, i2 \in 1..Len(X) : X[i1][j].tf = 0 /\ X[i2][j].tf > 0}

\* The sets of columns StandardScaler.fit can find var_ zero for: the score
\* of a term that every row holds depends on the row's other counts, which
\* the entries do not settle.
zero_variance_columns(X) ==
    LET equal == equal_columns(X)
    IN  {equal \cup others :
            others \in SUBSET ((Columns(X) \ differing_columns(X)) \ equal)}

unit_scale(variance) == "one"

\* scale_ = _handle_zeros_in_scale(sqrt(var_)): the standard deviation, and
\* 1 where the variance is zero.
scale_(variance) == IF variance = "zero" THEN "one" ELSE "std"

\* StandardScaler().fit_transform(X): each entry is (x - mean_) / scale_ of
\* its column; the entries of a column of zero variance all equal the mean.
fit_transform(X, constant) ==
    [i \in 1..Len(X) |->
        [j \in Columns(X) |->
            LET variance == IF j \in constant THEN "zero" ELSE "positive"
            IN  [x |-> IF j \in constant THEN X[1][j] ELSE X[i][j],
                 with_mean |-> TRUE,
                 var_ |-> variance,
                 scale_ |-> scale_(variance)]]]

(***************************************************************************)
(* KMeans                                                                  *)
(***************************************************************************)

\* The label vectors KMeans(n_clusters=k, random_state=42).fit_predict(X)
\* can return: one label in [0, k) per row, the index of the row's nearest
\* centre, so equal rows get equal labels. The k-means++ initialisation
\* draws each further centre among the rows that differ from the centres
\* drawn so far, so with at most k distinct rows every distinct row is a
\* centre and rows that differ get different labels.
kmeans_labels(X, k) ==
    {l \in [1..Len(X) -> 0..(k - 1)] :
        /\ \A i, j \in 1..Len(X) : X[i] = X[j] => l[i] = l[j]
        /\ Cardinality(Range(X)) <= k =>
              \A i, j \in 1..Len(X) : l[i] = l[j] => X[i] = X[j]}

\* kmeans.cluster_centers_: one centre per cluster id; the model keeps, for
\* each centre, the rows of the fitted matrix assigned to it.
kmeans_cluster_centers(X, labels, k) ==
    [c \in 0..(k - 1) |-> {i \in 1..Len(X) : labels[i] = c}]

\* The fits KMeans(n_clusters=k).fit_predict(X) can end with.
kmeans_fits(X, k) ==
    {[labels |-> l, cluster_centers |-> kmeans_cluster_centers(X, l, k)] :
        l \in kmeans_labels(X, k)}

unseeded_clustering(X, k, earlier) == kmeans_fits(X, k)

\* Lines 115-122: a new scaler and a new KMeans are built on every call, so
\* nothing is carried from one call to the next, and random_state is fixed:
\* the centre initialisation draws from the same seed in every call, so the
\* fit is a function of the matrix and k. `earlier` holds what earlier calls
\* with the same arguments returned: a call can return only that.
perform_clustering(X, k, earlier) ==
    IF earlier = {} THEN kmeans_fits(X, k) ELSE earlier

NotRun == [labels |-> <<>>, cluster_centers |-> <<>>]

(***************************************************************************)
(* analyze_clusters                                                        *)
(***************************************************************************)

\* Lines 133-141: raises KeyError when the analysis lacks one of the keys.
MemberKeys ==
    {"short_descriptive_label", "architectural_style", "futuristic_elements",
     "dominant_materials", "mood", "color_palette"}

member_raises(result) ==
    \/ json_loads_raises(result.analysis)
    \/ ~(MemberKeys \subseteq DOMAIN json_loads(result.analysis))

member_normalized(result) ==
    LET analysis == json_loads(result.analysis)
    IN  [path |-> result.original_path,
         label |-> clean_text(analysis.short_descriptive_label),
         style |-> clean_text(analysis.architectural_style),
         elements |-> clean_text(analysis.futuristic_elements),
         materials |-> clean_text(analysis.dominant_materials),
         mood |-> clean_text(analysis.mood),
         color |-> clean_text(analysis.color_palette)]

member(result) ==
    LET analysis == json_loads(result.analysis)
    IN  [path |-> result.original_path,
         label |-> analysis.short_descriptive_label,
         style |-> analysis.architectural_style,
         elements |-> analysis.futuristic_elements,
         materials |-> analysis.dominant_materials,
         mood |-> analysis.mood,
         color |-> analysis.color_palette]

RECURSIVE cluster_info_misaligned(_, _, _, _)
cluster_info_misaligned(results, labels, cluster, n) ==
    IF n = 0 THEN <<>>
    ELSE LET before == cluster_info_misaligned(results, labels, cluster, n - 1)
         IN  IF labels[n] = cluster
             THEN Append(before, member(results[Len(results) - n + 1])) ELSE before

RECURSIVE cluster_info(_, _, _, _)
\* Lines 130-142: the members of one cluster, in record order; zip stops at
\* the shorter of the two sequences (n).
cluster_info(results, labels, cluster, n) ==
    IF n = 0 THEN <<>>
    ELSE LET before == cluster_info(results, labels, cluster, n - 1)
         IN  IF labels[n] = cluster THEN Append(before, member(results[n])) ELSE before

keep_duplicates(xs) == xs

RECURSIVE list_set(_)
\* list(set(xs)): each distinct element once. Python leaves the order of the
\* resulting list unspecified; the first-occurrence order stands for it.
list_set(xs) ==
    IF xs = <<>> THEN <<>>
    ELSE LET rest == list_set(SubSeq(xs, 1, Len(xs) - 1))
             last == xs[Len(xs)]
         IN  IF \E i \in 1..Len(rest) : rest[i] = last THEN rest ELSE Append(rest, last)

size_of_distinct_labels(images) ==
    [size |-> Len(list_set([i \in 1..Len(images) |-> images[i].label])),
     common_labels |-> list_set([i \in 1..Len(images) |-> images[i].label]),
     common_styles |-> list_set([i \in 1..Len(images) |-> images[i].style]),
     common_elements |-> list_set([i \in 1..Len(images) |-> images[i].elements]),
     common_materials |-> list_set([i \in 1..Len(images) |-> images[i].materials]),
     common_moods |-> list_set([i \in 1..Len(images) |-> images[i].mood]),
     common_colors |-> list_set([i \in 1..Len(images) |-> images[i].color]),
     sample_paths |-> [i \in 1..Min(3, Len(images)) |-> images[i].path]]

sample_last_paths(images) ==
    [size |-> Len(images),
     common_labels |-> list_set([i \in 1..Len(images) |-> images[i].label]),
     common_styles |-> list_set([i \in 1..Len(images) |-> images[i].style]),
     common_elements |-> list_set([i \in 1..Len(images) |-> images[i].elements]),
     common_materials |-> list_set([i \in 1..Len(images) |-> images[i].materials]),
     common_moods |-> list_set([i \in 1..Len(images) |-> images[i].mood]),
     common_colors |-> list_set([i \in 1..Len(images) |-> images[i].color]),
     sample_paths |-> [i \in 1..Min(3, Len(images)) |->
                          images[Len(images) - Min(3, Len(images)) + i].path]]

\* Lines 148-157.
cluster_summary(images) ==
    [size |-> Len(images),
     common_labels |-> list_set([i \in 1..Len(images) |-> images[i].label]),
     common_styles |-> list_set([i \in 1..Len(images) |-> images[i].style]),
     common_elements |-> list_set([i \in 1..Len(images) |-> images[i].elements]),
     common_materials |-> list_set([i \in 1..Len(images) |-> images[i].materials]),
     common_moods |-> list_set([i \in 1..Len(images) |-> images[i].mood]),
     common_colors |-> list_set([i \in 1..Len(images) |-> images[i].color]),
     sample_paths |-> [i \in 1..Min(3, Len(images)) |-> images[i].path]]

only_populated_clusters(results, labels, names, k) ==
    [cluster \in {c \in 0..(k - 1) : \E i \in 1..Len(labels) : labels[i] = c} |->
        cluster_summary(cluster_info(results, labels, cluster,
                                     Min(Len(results), Len(labels))))]

analyze_clusters(results, labels, names, k) ==
    [cluster \in 0..(k - 1) |->
        cluster_summary(cluster_info(results, labels, cluster,
                                     Min(Len(results), Len(labels))))]

(***************************************************************************)
(* visualize_clusters                                                      *)
(***************************************************************************)

\* PCA(n_components=2) raises unless its input has at least two rows and two
\* columns: the feature matrix (line 170) and the matrix of the
\* len(set(cluster_labels)) centres of the refitted KMeans (lines 187-189).
pca_raises(X, labels) ==
    \/ Len(X) < 2
    \/ \E i \in 1..Len(X) : Len(X[i]) < 2
    \/ Cardinality(Range(labels)) < 2

(***************************************************************************)
(* save_results                                                            *)
(***************************************************************************)

\* json.dump writes an int key as its decimal string.
key_str(cluster) == ToString(cluster)

dump_sizes_only(summaries) ==
    [key \in {key_str(c) : c \in DOMAIN summaries} |->
        [size |-> summaries[CHOOSE c \in DOMAIN summaries : key_str(c) = key].size]]

\* The JSON object json.dump(cluster_summaries, f, indent=2) writes.
json_dump(summaries) ==
    [key \in {key_str(c) : c \in DOMAIN summaries} |->
        summaries[CHOOSE c \in DOMAIN summaries : key_str(c) = key]]

Absent == [status |-> "absent", data |-> <<>>]

Complete(summaries) == [status |-> "complete", data |-> json_dump(summaries)]

merged_with_existing(summaries, existing) ==
    LET new == json_dump(summaries)
    IN  [status |-> "complete",
         data |-> [key \in DOMAIN new \cup {k \in DOMAIN existing.data : k \notin DOMAIN new} |->
                      IF key \in DOMAIN new THEN new[key] ELSE existing.data[key]]]

\* Lines 230-232 when nothing fails: open(output_file, "w") discards what the
\* file held, json.dump writes the summaries.
save_results(summaries, existing) == Complete(summaries)

\* What open(output_file, "w") followed by a json.dump that fails after
\* `written` entries leaves on disk: the beginning of the new text.
Truncated(summaries, written) ==
    [status |-> "truncated",
     data |-> json_dump([c \in {d \in DOMAIN summaries : d < written} |-> summaries[c]])]

(***************************************************************************)
(* The prompt stage: generate_prompt                                       *)
(***************************************************************************)

\* What client.responses.create and json.loads(response.output_text) can come
\* to: a JSON object with name and prompt, a JSON object without a name, a
\* text that is not JSON, or an exception of the API call.
Responses ==
    {[kind |-> "object", name |-> "Neon Canopy", prompt |-> "neon arcades"],
     [kind |-> "object", name |-> "Quiet Stone", prompt |-> "stone courts"],
     [kind |-> "nameless", name |-> "", prompt |-> "stone courts"],
     [kind |-> "unparsable", name |-> "", prompt |-> ""],
     [kind |-> "raised", name |-> "", prompt |-> ""]}

\* json.loads(response.output_text)
response_data(response) ==
    IF response.kind = "object"
    THEN [name |-> response.name, prompt |-> response.prompt]
    ELSE [prompt |-> response.prompt]

\* generate_prompt: the script lets an exception of the API call propagate,
\* the page returns an "API Error" entry; both return a "Parsing Error" entry
\* when the text is not JSON, and otherwise what json.loads returned.
generate_prompt(entry, response) ==
    IF response.kind = "raised"
    THEN IF entry = "script"
         THEN [raises |-> TRUE, data |-> <<>>]
         ELSE [raises |-> FALSE,
               data |-> [name |-> "API Error", prompt |-> "Error generating prompt: "]]
    ELSE IF response.kind = "unparsable"
    THEN [raises |-> FALSE,
          data |-> [name |-> "Parsing Error", prompt |-> "Error generating prompt"]]
    ELSE [raises |-> FALSE, data |-> response_data(response)]

shared_key(cluster_id) == "cluster"

\* f"cluster_{cluster_id}"
prompt_key(cluster_id) == "cluster_" \o cluster_id

\* prompts[key] = value
dict_set(dict, key, value) ==
    [k \in DOMAIN dict \cup {key} |-> IF k = key THEN value ELSE dict[k]]

\* cluster_data.items(): the keys in the order of the file, "0", "1", ...
items(data) == [i \in 1..Cardinality(DOMAIN data) |-> key_str(i - 1)]

AbsentPrompts == [status |-> "absent", data |-> <<>>]

PromptsIdle ==
    /\ gpc = "idle"
    /\ entry_point = "script"
    /\ cluster_data = <<>>
    /\ pending = <<>>
    /\ prompts = <<>>
    /\ prompts_file = AbsentPrompts

(***************************************************************************)
(* The metadata files: load_metadata and save_metadata                     *)
(***************************************************************************)

\* The content of a metadata file: no file, no text, white space only, a
\* text that is not JSON, or the JSON text of a list.
NoFile == [kind |-> "absent", value |-> <<>>]
EmptyText == [kind |-> "empty", value |-> <<>>]
BlankText == [kind |-> "blank", value |-> <<>>]
InvalidText == [kind |-> "invalid", value |-> <<>>]
JsonText(list) == [kind |-> "json", value |-> list]

\* os.path.exists(metadata_path)
exists(file) == file.kind # "absent"

\* f.read() on a file object at `position`: the text from there to the end;
\* the position is at the end afterwards.
read(file, position) == IF position = "start" THEN file ELSE EmptyText

\* content.strip() is falsy
strip_is_empty(content) == content.kind \in {"empty", "blank"}

\* json.load(f) is json.loads(f.read()): it raises JSONDecodeError when what
\* is left to read is not a JSON text.
json_load_raises(file, position) == read(file, position).kind # "json"
json_load(file, position) == read(file, position).value

\* The position of the file object when json.load(f) is called: f.read()
\* has consumed the text.
position_after_read(file) == "end"

\* load_metadata: the value it returns and the file it leaves.
\* urban_future_generator lines 147-174 and urban_design_generator lines
\* 329-356 write "[]" when the file is missing or json.load raises;
\* directory_utils lines 31-52 never writes.
load_metadata(mod, file) ==
    IF ~exists(file)
    THEN [value |-> <<>>,
          file |-> IF mod = "directory_utils" THEN file ELSE JsonText(<<>>)]
    ELSE IF strip_is_empty(read(file, "start"))
    THEN [value |-> <<>>, file |-> file]
    ELSE IF json_load_raises(file, position_after_read(file))
    THEN [value |-> <<>>,
          file |-> IF mod = "directory_utils" THEN file ELSE JsonText(<<>>)]
    ELSE [value |-> json_load(file, position_after_read(file)), file |-> file]

\* save_metadata: the file it leaves. urban_future_generator lines 177-207
\* reads the existing list first and writes existing + metadata;
\* directory_utils lines 13-28 and urban_design_generator lines 359-368 write
\* metadata.
save_metadata(mod, metadata, file) ==
    IF mod = "urban_future_generator"
    THEN LET existing_metadata ==
                 IF /\ exists(file)
                    /\ ~strip_is_empty(read(file, "start"))
                    /\ ~json_load_raises(file, position_after_read(file))
                 THEN json_load(file, position_after_read(file))
                 ELSE <<>>
         IN  JsonText(existing_metadata \o metadata)
    ELSE JsonText(metadata)

NotCalled == [called |-> FALSE, value |-> <<>>]
Returned(value) == [called |-> TRUE, value |-> value]

MetadataIdle ==
    /\ mpc = "idle"
    /\ module = "directory_utils"
    /\ metadata_file = NoFile
    /\ saved = NotCalled
    /\ loaded = NotCalled
    /\ file_before_load = NoFile
    /\ transformed = <<>>
    /\ calls = 0

(***************************************************************************)
(* image_processor.py: ImageProcessor.process_images                       *)
(***************************************************************************)

\* The image files an input directory can hold, in sorted order.
ImagePaths == <<"sample_images/a.jpg", "sample_images/b.png", "sample_images/c.jpg">>

RECURSIVE sorted_paths(_)
\* sorted(image_files)
sorted_paths(files) ==
    IF files = {} THEN <<>>
    ELSE LET first == CHOOSE i \in 1..Len(ImagePaths) :
                         /\ ImagePaths[i] \in files
                         /\ \A j \in 1..(i - 1) : ImagePaths[j] \notin files
         IN  <<ImagePaths[first]>> \o sorted_paths(files \ {ImagePaths[first]})

find_images(dir) == sorted_paths(DOMAIN dir)

\* processed_paths = {r["original_path"] for r in results}
original_paths(records) == {records[i].original_path : i \in 1..Len(records)}

unfiltered_images(files, records) == files

\* Line 253: [img for img in image_files if img not in processed_paths]
remaining_images(files, records) ==
    SelectSeq(files, LAMBDA img : img \notin original_paths(records))

\* Lines 243-258: the list results and the images left to process. When the
\* file is missing, or json.load raises, results stays [] and no image is
\* filtered out.
load_existing(file, files) ==
    IF file.kind = "json"
    THEN [results |-> file.value, image_files |-> remaining_images(files, file.value)]
    ELSE [results |-> <<>>, image_files |-> files]

\* def analyze_image_with_openai(self, base64_image), line 141
analyze_parameters == <<"base64_image">>

\* self.analyze_image_with_openai(base64_image, prompt), line 287
analyze_arguments == <<"base64_image", "prompt">>

\* A call raises TypeError when it passes more positional arguments than the
\* method takes.
call_raises(parameters, arguments) == Len(arguments) > Len(parameters)

\* What analyze_image_with_openai returns: the model's text, or the JSON
\* text of the error record when the API call raised.
AnalysisTexts == {"analysis", "error analysis"}

\* os.path.join(image_output_dir, os.path.relpath(original_path, input_dir))
processed_path(original_path) == "processed_images/" \o original_path

\* Lines 294-301.
result_record(image_path, analysis, timestamp) ==
    [original_path |-> image_path, processed_path |-> processed_path(image_path),
     analysis |-> analysis, timestamp |-> timestamp]

ImagesIdle ==
    /\ ipc = "idle"
    /\ input_dir = <<>>
    /\ results_file = NoFile
    /\ image_results = <<>>
    /\ image_files = <<>>
    /\ processed_images = {}
    /\ file_at_start = NoFile
    /\ attempted = <<>>
    /\ runs = 0

OtherStagesIdle == PromptsIdle /\ MetadataIdle /\ ImagesIdle

(***************************************************************************)
(* Inputs of main: the records of analysis_results.json and --n_clusters   *)
(***************************************************************************)

MaxRecords == 3
MaxK == 4

Brutal ==
    [architectural_style |-> <<"b", "r", "u", "t", "a", "l", "i", "s", "t">>, futuristic_elements |-> <<"f", "o", "g", " ", "d", "r", "o", "n", "e", "s">>,
     mood |-> <<"g", "l", "o", "o", "m", "y">>, color_palette |-> <<"g", "r", "a", "y">>,
     dominant_materials |-> <<"c", "o", "n", "c", "r", "e", "t", "e", " ", "a", "n", "d", " ", "s", "t", "e", "e", "l">>,
     short_descriptive_label |-> <<"g", "r", "e", "y", " ", "b", "l", "o", "c", "k">>]

Solar ==
    [architectural_style |-> <<"s", "o", "l", "a", "r", "p", "u", "n", "k">>, futuristic_elements |-> <<"v", "e", "r", "t", "i", "c", "a", "l", " ", "g", "a", "r", "d", "e", "n", "s">>,
     mood |-> <<"h", "o", "p", "e", "f", "u", "l">>, color_palette |-> <<"g", "r", "e", "e", "n">>,
     dominant_materials |-> <<"t", "i", "m", "b", "e", "r">>,
     short_descriptive_label |-> <<"g", "r", "e", "e", "n", " ", "c", "i", "t", "y">>]

\* Nine colour terms: with "gray" and "green" of other records the corpus has
\* eleven, one more than color_palette's max_features.
Rainbow ==
    [architectural_style |-> <<"S", "o", "l", "a", "r", "p", "u", "n", "k", " ", "a", "n", "d", " ", "D", "e", "c", "o">>, futuristic_elements |-> <<"s", "k", "y", " ", "r", "a", "i", "l">>,
     mood |-> <<"h", "o", "p", "e", "f", "u", "l">>,
     color_palette |-> <<"r", "e", "d", ",", " ", "b", "l", "u", "e", ",", " ", "g", "o", "l", "d", ",", " ", "p", "i", "n", "k", ",", " ", "t", "e", "a", "l", ",", " ", "c", "y", "a", "n", ",", " ", "l", "i", "m", "e", ",", " ", "n", "a", "v", "y", " ", "a", "n", "d", " ", "p", "l", "u", "m">>,
     dominant_materials |-> <<"g", "l", "a", "s", "s">>,
     short_descriptive_label |-> <<"b", "r", "i", "g", "h", "t", " ", "m", "a", "l", "l">>]

\* A mood that is empty after normalisation, and materials that differ from
\* Brutal's in case and conjunction style only.
NoMood ==
    [architectural_style |-> <<"b", "r", "u", "t", "a", "l", "i", "s", "t">>, futuristic_elements |-> <<"f", "o", "g", " ", "d", "r", "o", "n", "e", "s">>,
     mood |-> <<" ", ",", " ">>, color_palette |-> <<"g", "r", "a", "y">>,
     dominant_materials |-> <<"C", "o", "n", "c", "r", "e", "t", "e", ",", " ", "S", "t", "e", "e", "l">>,
     short_descriptive_label |-> <<"g", "r", "e", "y", " ", "b", "l", "o", "c", "k">>]

\* Analyses that lack a required key.
MissingMood ==
    [architectural_style |-> <<"b", "r", "u", "t", "a", "l", "i", "s", "t">>, futuristic_elements |-> <<"f", "o", "g", " ", "d", "r", "o", "n", "e", "s">>,
     color_palette |-> <<"g", "r", "a", "y">>, dominant_materials |-> <<"c", "o", "n", "c", "r", "e", "t", "e">>,
     short_descriptive_label |-> <<"g", "r", "e", "y", " ", "b", "l", "o", "c", "k">>]

MissingLabel ==
    [architectural_style |-> <<"s", "o", "l", "a", "r", "p", "u", "n", "k">>, futuristic_elements |-> <<"v", "e", "r", "t", "i", "c", "a", "l", " ", "g", "a", "r", "d", "e", "n", "s">>,
     mood |-> <<"h", "o", "p", "e", "f", "u", "l">>, color_palette |-> <<"g", "r", "e", "e", "n">>,
     dominant_materials |-> <<"t", "i", "m", "b", "e", "r">>]

Analyses == {Brutal, Solar, Rainbow, NoMood, MissingMood, MissingLabel, NotJson}

Paths == <<"img1.jpg", "img2.jpg", "img3.jpg", "img4.jpg", "img5.jpg", "img6.jpg">>

\* The record lists load_analysis_results can return.
RecordLists ==
    UNION {{[i \in 1..n |-> [original_path |-> Paths[i], analysis |-> a[i]]] :
               a \in [1..n -> Analyses]} : n \in 0..MaxRecords}

\* The file an earlier successful run with --n_clusters 3 left behind.
PriorRun ==
    Complete(analyze_clusters(
        <<[original_path |-> "old1.jpg", analysis |-> Brutal],
          [original_path |-> "old2.jpg", analysis |-> Solar],
          [original_path |-> "old3.jpg", analysis |-> Rainbow]>>,
        <<0, 1, 2>>, <<>>, 3))

(***************************************************************************)
(* main                                                                    *)
(***************************************************************************)

PipelineInit ==
    /\ pc = "start"
    /\ err = "none"
    /\ n_clusters = 0
    /\ analysis_results = <<>>
    /\ features = <<>>
    /\ feature_names = <<>>
    /\ cluster_labels = <<>>
    /\ cluster_centers = <<>>
    /\ scaled_features = <<>>
    /\ cluster_summaries = <<>>
    /\ fit_called = FALSE
    /\ output_file \in {Absent, PriorRun}
    /\ overwritten = Absent

TextInit ==
    /\ frags = <<>>
    /\ tpc = "input"
    /\ cleaned = NoText
    /\ recleaned = NoText

Init == PipelineInit /\ TextInit /\ rerun = NotRun /\ OtherStagesIdle

Raise(exception) ==
    /\ pc' = "failed"
    /\ err' = exception

\* Line 236: args = parse_arguments()
ParseArguments(k) ==
    /\ pc = "start"
    /\ n_clusters' = k
    /\ pc' = "parsed"
    /\ UNCHANGED <<err, analysis_results, features, feature_names, cluster_labels,
                   cluster_centers, cluster_summaries, fit_called, output_file,
                   overwritten, scaled_features,
                   tvars, cvars, ovars>>

\* Lines 239-243: the output directory is created and the input file read.
LoadAnalysisResults ==
    /\ pc = "parsed"
    /\ \/ /\ \E results \in RecordLists : analysis_results' = results
          /\ pc' = "loaded"
          /\ UNCHANGED err
       \/ /\ Raise("FileNotFoundError")
          /\ UNCHANGED analysis_results
    /\ UNCHANGED <<n_clusters, features, feature_names, cluster_labels,
                   cluster_centers, cluster_summaries, fit_called, output_file,
                   overwritten, scaled_features,
                   tvars, cvars, ovars>>

\* Line 247: features, feature_names = extract_features(analysis_results)
ExtractFeatures ==
    /\ pc = "loaded"
    /\ \/ /\ \E i \in 1..Len(analysis_results) :
               /\ ~extractable(analysis_results[i])
               /\ \A j \in 1..(i - 1) : extractable(analysis_results[j])
               /\ Raise(IF json_loads_raises(analysis_results[i].analysis)
                        THEN "JSONDecodeError" ELSE "KeyError")
          /\ UNCHANGED <<features, feature_names>>
       \/ /\ \A i \in 1..Len(analysis_results) : extractable(analysis_results[i])
          /\ LET corpus == corpora(analysis_results)
             IN  \/ /\ empty_vocabulary(corpus)
                    /\ Raise("ValueError: empty vocabulary")
                    /\ UNCHANGED <<features, feature_names>>
                 \/ /\ ~empty_vocabulary(corpus)
                    /\ \E vocab \in fitted_vocabularies(corpus) :
                         /\ features' = combined_matrix(corpus, vocab, Len(analysis_results))
                         /\ feature_names' = all_feature_names(vocab, 1)
                    /\ pc' = "extracted"
                    /\ UNCHANGED err
    /\ UNCHANGED <<n_clusters, analysis_results, cluster_labels, cluster_centers,
                   cluster_summaries, fit_called, output_file, overwritten,
                   scaled_features,
                   tvars, cvars, ovars>>

ClusterBeforeExtraction ==
    /\ pc = "loaded"
    /\ pc' = "clustered"
    /\ fit_called' = TRUE
    /\ cluster_labels' = [i \in 1..Len(analysis_results) |-> 0]
    /\ UNCHANGED <<err, n_clusters, analysis_results, features, feature_names,
                   cluster_centers, cluster_summaries, output_file, overwritten,
                   scaled_features,
                   tvars, cvars, ovars>>

\* Line 251: the scaler is fitted, then KMeans.fit_predict is called with
\* args.n_clusters as given.
PerformClustering ==
    /\ pc = "extracted"
    /\ fit_called' = TRUE
    /\ \/ /\ kmeans_raises(features, n_clusters)
          /\ Raise("ValueError: n_clusters")
          /\ UNCHANGED <<cluster_labels, cluster_centers, scaled_features>>
       \/ /\ ~kmeans_raises(features, n_clusters)
          /\ \E constant \in zero_variance_columns(features) :
               /\ scaled_features' = fit_transform(features, constant)
               /\ \E fit \in perform_clustering(scaled_features', n_clusters, {}) :
                    /\ cluster_labels' = fit.labels
                    /\ cluster_centers' = fit.cluster_centers
          /\ pc' = "clustered"
          /\ UNCHANGED err
    /\ UNCHANGED <<n_clusters, analysis_results, features, feature_names,
                   cluster_summaries, output_file, overwritten, tvars, cvars, ovars>>

\* Lines 255-257.
AnalyzeClusters ==
    /\ pc = "clustered"
    /\ \/ /\ \E i \in 1..Len(analysis_results) : member_raises(analysis_results[i])
          /\ Raise("KeyError")
          /\ UNCHANGED cluster_summaries
       \/ /\ \A i \in 1..Len(analysis_results) : ~member_raises(analysis_results[i])
          /\ cluster_summaries' =
                analyze_clusters(analysis_results, cluster_labels, feature_names, n_clusters)
          /\ pc' = "analyzed"
          /\ UNCHANGED err
    /\ UNCHANGED <<n_clusters, analysis_results, features, feature_names,
                   cluster_labels, cluster_centers, fit_called, output_file,
                   overwritten, scaled_features,
                   tvars, cvars, ovars>>

SaveBeforeVisualizing ==
    /\ pc = "analyzed"
    /\ output_file' = Complete(cluster_summaries)
    /\ overwritten' = output_file
    /\ pc' = "visualized"
    /\ UNCHANGED <<err, n_clusters, analysis_results, features, feature_names,
                   cluster_labels, cluster_centers, cluster_summaries, fit_called,
                   scaled_features, tvars, cvars, ovars>>

\* Line 261.
VisualizeClusters ==
    /\ pc = "analyzed"
    /\ \/ /\ pca_raises(features, cluster_labels)
          /\ Raise("ValueError: n_components")
       \/ /\ ~pca_raises(features, cluster_labels)
          /\ pc' = "visualized"
          /\ UNCHANGED err
    /\ UNCHANGED <<n_clusters, analysis_results, features, feature_names,
                   cluster_labels, cluster_centers, cluster_summaries, fit_called,
                   output_file, overwritten, scaled_features,
                   tvars, cvars, ovars>>

\* Line 265: save_results(cluster_summaries, args.output_dir). open(..., "w")
\* either raises and leaves the file alone, or truncates it; json.dump then
\* writes the text piece by piece and can fail at any point.
SaveResults ==
    /\ pc = "visualized"
    /\ \/ /\ output_file' = save_results(cluster_summaries, output_file)
          /\ overwritten' = output_file
          /\ pc' = "done"
          /\ UNCHANGED err
       \/ /\ Raise("OSError: open")
          /\ UNCHANGED <<output_file, overwritten>>
       \/ /\ \E written \in 0..(n_clusters - 1) :
               output_file' = Truncated(cluster_summaries, written)
          /\ overwritten' = output_file
          /\ Raise("OSError: write")
    /\ UNCHANGED <<n_clusters, analysis_results, features, feature_names,
                   cluster_labels, cluster_centers, cluster_summaries, fit_called,
                   scaled_features,
                   tvars, cvars, ovars>>

Next ==
    \/ \E k \in 0..MaxK : ParseArguments(k)
    \/ LoadAnalysisResults
    \/ ExtractFeatures
    \/ PerformClustering
    \/ AnalyzeClusters
    \/ VisualizeClusters
    \/ SaveResults

Spec == Init /\ [][Next]_vars

(***************************************************************************)
(* analyze_clusters called on its own: record lists long enough for a      *)
(* cluster of more than three members, with any labels in [0, n_clusters)  *)
(***************************************************************************)

MaxMembers == 5
MaxGroups == 2

\* The record lists passed as analysis_results.
MemberLists ==
    UNION {{[i \in 1..n |-> [original_path |-> Paths[i], analysis |-> a[i]]] :
               a \in [1..n -> {Solar, MissingLabel}]} : n \in 0..MaxMembers}

\* The arguments of the call: one label per record.
InitAnalyze ==
    /\ TextInit
    /\ OtherStagesIdle
    /\ pc = "clustered"
    /\ err = "none"
    /\ n_clusters \in 1..MaxGroups
    /\ analysis_results \in MemberLists
    /\ features = <<>>
    /\ feature_names = <<>>
    /\ cluster_labels \in [1..Len(analysis_results) -> 0..(n_clusters - 1)]
    /\ cluster_centers = <<>>
    /\ scaled_features = <<>>
    /\ cluster_summaries = <<>>
    /\ fit_called = FALSE
    /\ output_file = Absent
    /\ overwritten = Absent
    /\ rerun = NotRun

NextAnalyze == AnalyzeClusters

SpecAnalyze == InitAnalyze /\ [][NextAnalyze]_vars

(***************************************************************************)
(* perform_clustering called twice on the same arguments                   *)
(***************************************************************************)

MaxRows == 3

\* Entries of a column of weight 1.0 for a term that is absent from, and
\* present in, a record.
Zero == [tf |-> 0, df |-> 1, weight |-> 10]
One == [tf |-> 1, df |-> 1, weight |-> 10]

Rows == {<<Zero, Zero>>, <<Zero, One>>, <<One, Zero>>}

\* The feature matrices passed as features.
Matrices == UNION {[1..n -> Rows] : n \in 0..MaxRows}

InitCluster ==
    /\ TextInit
    /\ OtherStagesIdle
    /\ pc = "extracted"
    /\ err = "none"
    /\ n_clusters \in 0..MaxK
    /\ analysis_results = <<>>
    /\ features \in Matrices
    /\ feature_names = <<>>
    /\ cluster_labels = <<>>
    /\ cluster_centers = <<>>
    /\ scaled_features = <<>>
    /\ cluster_summaries = <<>>
    /\ fit_called = FALSE
    /\ output_file = Absent
    /\ overwritten = Absent
    /\ rerun = NotRun

\* A second call perform_clustering(features, n_clusters) after the first has
\* returned cluster_labels and cluster_centers.
PerformClusteringAgain ==
    /\ pc = "clustered"
    /\ rerun = NotRun
    /\ rerun' \in perform_clustering(
                     scaled_features, n_clusters,
                     {[labels |-> cluster_labels, cluster_centers |-> cluster_centers]})
    /\ UNCHANGED <<pvars, tvars, ovars>>

NextCluster ==
    \/ PerformClustering
    \/ PerformClusteringAgain

SpecCluster == InitCluster /\ [][NextCluster]_vars

(***************************************************************************)
(* A run of main on six records of two attribute sets with --n_clusters 2  *)
(***************************************************************************)

\* Pairs of analyses whose attribute values have no term in common.
DisjointPairs ==
    {<<Brutal, Solar>>, <<Solar, Brutal>>, <<Brutal, Rainbow>>, <<Rainbow, Brutal>>}

\* The record lists of six records, two with the first analysis of a pair
\* and four with the second, in any order.
ScenarioLists ==
    {[i \in 1..6 |->
         [original_path |-> Paths[i],
          analysis |-> IF i \in minority THEN pair[1] ELSE pair[2]]] :
        pair \in DisjointPairs,
        minority \in {m \in SUBSET (1..6) : Cardinality(m) = 2}}

InitScenario ==
    /\ TextInit
    /\ OtherStagesIdle
    /\ pc = "loaded"
    /\ err = "none"
    /\ n_clusters = 2
    /\ analysis_results \in ScenarioLists
    /\ features = <<>>
    /\ feature_names = <<>>
    /\ cluster_labels = <<>>
    /\ cluster_centers = <<>>
    /\ scaled_features = <<>>
    /\ cluster_summaries = <<>>
    /\ fit_called = FALSE
    /\ output_file \in {Absent, PriorRun}
    /\ overwritten = Absent
    /\ rerun = NotRun

NextScenario ==
    \/ ExtractFeatures
    \/ PerformClustering
    \/ AnalyzeClusters
    \/ VisualizeClusters
    \/ SaveResults

SpecScenario == InitScenario /\ [][NextScenario]_vars


(***************************************************************************)
(* extract_features called on a loaded record list                         *)
(***************************************************************************)

InitExtract ==
    /\ TextInit
    /\ OtherStagesIdle
    /\ pc = "loaded"
    /\ err = "none"
    /\ n_clusters = 2
    /\ analysis_results \in RecordLists
    /\ features = <<>>
    /\ feature_names = <<>>
    /\ cluster_labels = <<>>
    /\ cluster_centers = <<>>
    /\ scaled_features = <<>>
    /\ cluster_summaries = <<>>
    /\ fit_called = FALSE
    /\ output_file = Absent
    /\ overwritten = Absent
    /\ rerun = NotRun

NextExtract == ExtractFeatures

SpecExtract == InitExtract /\ [][NextExtract]_vars

(***************************************************************************)
(* The stages around the pipeline start from a pipeline that is not        *)
(* running.                                                                *)
(***************************************************************************)

PipelineIdle ==
    /\ TextInit
    /\ rerun = NotRun
    /\ pc = "start"
    /\ err = "none"
    /\ n_clusters = 0
    /\ analysis_results = <<>>
    /\ features = <<>>
    /\ feature_names = <<>>
    /\ cluster_labels = <<>>
    /\ cluster_centers = <<>>
    /\ scaled_features = <<>>
    /\ cluster_summaries = <<>>
    /\ fit_called = FALSE
    /\ overwritten = Absent

(***************************************************************************)
(* The prompt stage: main of generate_cluster_prompts.py and               *)
(* generate_cluster_prompts of pages/2_Generate_Prompts.py                 *)
(***************************************************************************)

\* The file a run with --n_clusters 3 leaves when no record is in cluster 1.
SparseRun ==
    Complete(analyze_clusters(
        <<[original_path |-> "old1.jpg", analysis |-> Brutal],
          [original_path |-> "old2.jpg", analysis |-> Solar],
          [original_path |-> "old3.jpg", analysis |-> Solar]>>,
        <<0, 2, 2>>, <<>>, 3))

\* What results/cluster_results/cluster_analysis_results.json can hold.
ClusterFiles ==
    {Absent, PriorRun, SparseRun,
     [status |-> "truncated", data |-> [key \in {"0"} |-> PriorRun.data[key]]]}

\* The cluster_prompts.json of an earlier run of the stage.
EarlierPrompts ==
    [status |-> "complete",
     data |-> [key \in {"cluster_0", "cluster_7"} |->
                  [size |-> 9, name |-> "Old Town", prompt |-> "old town"]]]

InitPrompts ==
    /\ PipelineIdle
    /\ MetadataIdle
    /\ ImagesIdle
    /\ output_file \in ClusterFiles
    /\ gpc = "start"
    /\ entry_point \in {"script", "page"}
    /\ cluster_data = <<>>
    /\ pending = <<>>
    /\ prompts = <<>>
    /\ prompts_file \in {AbsentPrompts, EarlierPrompts}

\* Script lines 116-125: load_cluster_data raises when the file is missing or
\* is not JSON. Page lines 154-166: load_json_if_exists returns None or [],
\* and generate_cluster_prompts returns False.
LoadClusterData ==
    /\ gpc = "start"
    /\ IF output_file.status = "complete"
       THEN /\ cluster_data' = output_file.data
            /\ pending' = items(output_file.data)
            /\ gpc' = "looping"
       ELSE /\ gpc' = "failed"
            /\ UNCHANGED <<cluster_data, pending>>
    /\ UNCHANGED <<entry_point, prompts, prompts_file, tvars, pvars, cvars, mvars, ivars>>

\* One pass of the loop, script lines 128-137 and page lines 173-193:
\* generate_prompt, then the entry is stored under f"cluster_{cluster_id}";
\* prompt_data["name"] raises KeyError when the response has no name.
GeneratePrompt(response) ==
    /\ gpc = "looping"
    /\ pending # <<>>
    /\ LET cluster_id == Head(pending)
           info == cluster_data[cluster_id]
           prompt_data == generate_prompt(entry_point, response)
       IN  IF prompt_data.raises \/ ~({"name", "prompt"} \subseteq DOMAIN prompt_data.data)
           THEN /\ gpc' = "failed"
                /\ UNCHANGED <<pending, prompts>>
           ELSE /\ prompts' =
                     dict_set(prompts, prompt_key(cluster_id),
                              [size |-> info.size,
                               name |-> prompt_data.data.name,
                               prompt |-> prompt_data.data.prompt])
                /\ pending' = Tail(pending)
                /\ UNCHANGED gpc
    /\ UNCHANGED <<entry_point, cluster_data, prompts_file, tvars, pvars, cvars, mvars, ivars>>

\* Script lines 140-143 and page lines 200-207: open(output_path, "w") raises
\* and leaves the file, or truncates it; json.dump writes the entries one
\* after the other and can fail at any point. The script lets the exception
\* propagate, the page returns False.
SavePrompts ==
    /\ gpc = "looping"
    /\ pending = <<>>
    /\ \/ /\ prompts_file' = [status |-> "complete", data |-> prompts]
          /\ gpc' = "saved"
       \/ /\ gpc' = "failed"
          /\ UNCHANGED prompts_file
       \/ /\ \E written \in SUBSET DOMAIN prompts :
               /\ written # DOMAIN prompts
               /\ prompts_file' =
                     [status |-> "truncated", data |-> [k \in written |-> prompts[k]]]
          /\ gpc' = "failed"
    /\ UNCHANGED <<entry_point, cluster_data, pending, prompts, tvars, pvars, cvars, mvars, ivars>>

NextPrompts ==
    \/ LoadClusterData
    \/ \E response \in Responses : GeneratePrompt(response)
    \/ SavePrompts

SpecPrompts == InitPrompts /\ [][NextPrompts]_vars

(***************************************************************************)
(* save_metadata and load_metadata of directory_utils.py and               *)
(* urban_design_generator.py, called one after the other                   *)
(***************************************************************************)

MaxCalls == 3

FirstEntry ==
    [timestamp |-> 0, original_image |-> "streetview_images/a.jpg",
     prompt_name |-> "cluster_0"]

SecondEntry ==
    [timestamp |-> 0, original_image |-> "streetview_images/b.jpg",
     prompt_name |-> "cluster_1"]

\* The lists passed as metadata.
MetadataLists ==
    {<<>>, <<FirstEntry>>, <<SecondEntry>>, <<FirstEntry, SecondEntry>>}

\* What the metadata file can hold before the first call.
MetadataFiles ==
    {NoFile, EmptyText, BlankText, InvalidText, JsonText(<<>>), JsonText(<<FirstEntry>>)}

InitMetadata ==
    /\ PipelineIdle
    /\ output_file = Absent
    /\ PromptsIdle
    /\ ImagesIdle
    /\ mpc = "start"
    /\ module \in {"directory_utils", "urban_design_generator"}
    /\ metadata_file \in MetadataFiles
    /\ saved = NotCalled
    /\ loaded = NotCalled
    /\ file_before_load = NoFile
    /\ transformed = <<>>
    /\ calls = 0

SaveMetadata(metadata) ==
    /\ calls < MaxCalls
    /\ calls' = calls + 1
    /\ mpc' = "saved"
    /\ metadata_file' = save_metadata(module, metadata, metadata_file)
    /\ saved' = Returned(metadata)
    /\ UNCHANGED <<module, loaded, file_before_load, transformed,
                   tvars, pvars, cvars, gvars, ivars>>

LoadMetadata ==
    /\ calls < MaxCalls
    /\ calls' = calls + 1
    /\ mpc' = "loaded"
    /\ LET outcome == load_metadata(module, metadata_file)
       IN  /\ loaded' = Returned(outcome.value)
           /\ metadata_file' = outcome.file
    /\ file_before_load' = metadata_file
    /\ UNCHANGED <<module, saved, transformed, tvars, pvars, cvars, gvars, ivars>>

NextMetadata ==
    \/ \E metadata \in MetadataLists : SaveMetadata(metadata)
    \/ LoadMetadata

SpecMetadata == InitMetadata /\ [][NextMetadata]_vars

(***************************************************************************)
(* urban_future_generator.py: transform_street_view                        *)
(***************************************************************************)

StreetViews == {"streetview_images/a.jpg", "streetview_images/b.jpg"}

PromptNames == {"cluster_0", "cluster_1"}

\* setup_directories has written "[]" to urban_future_metadata.json.
InitFuture ==
    /\ PipelineIdle
    /\ output_file = Absent
    /\ PromptsIdle
    /\ ImagesIdle
    /\ mpc = "start"
    /\ module = "urban_future_generator"
    /\ metadata_file = JsonText(<<>>)
    /\ saved = NotCalled
    /\ loaded = NotCalled
    /\ file_before_load = NoFile
    /\ transformed = <<>>
    /\ calls = 0

\* Lines 83-144. When the Stability call or the saving of the images raises,
\* the call returns success False and the metadata is not touched.
\* Otherwise: load_metadata, append the entry, save_metadata. The timestamp
\* is the number of the call.
TransformStreetView(image_path, prompt_name, transformed_ok) ==
    /\ calls < MaxCalls
    /\ calls' = calls + 1
    /\ IF transformed_ok
       THEN LET outcome == load_metadata(module, metadata_file)
                entry == [timestamp |-> calls + 1, original_image |-> image_path,
                          prompt_name |-> prompt_name]
                metadata == Append(outcome.value, entry)
            IN  /\ loaded' = Returned(outcome.value)
                /\ file_before_load' = metadata_file
                /\ saved' = Returned(metadata)
                /\ metadata_file' = save_metadata(module, metadata, outcome.file)
                /\ transformed' = Append(transformed, entry)
                /\ mpc' = "saved"
       ELSE UNCHANGED <<mpc, metadata_file, saved, loaded, file_before_load, transformed>>
    /\ UNCHANGED <<module, tvars, pvars, cvars, gvars, ivars>>

NextFuture ==
    \E image_path \in StreetViews, prompt_name \in PromptNames, transformed_ok \in BOOLEAN :
        TransformStreetView(image_path, prompt_name, transformed_ok)

SpecFuture == InitFuture /\ [][NextFuture]_vars

(***************************************************************************)
(* image_processor.py: runs of process_images over one input directory     *)
(***************************************************************************)

MaxRuns == 2

\* The input directories: the image files and whether PIL can open them.
InputDirs == UNION {[files -> BOOLEAN] : files \in SUBSET Range(ImagePaths)}

EarlierRecord(image_path) == result_record(image_path, "analysis", 0)

\* What analysis_results.json can hold before the first run.
ResultFiles ==
    {NoFile, InvalidText, JsonText(<<>>),
     JsonText(<<EarlierRecord(ImagePaths[1])>>),
     JsonText(<<EarlierRecord(ImagePaths[1]), EarlierRecord(ImagePaths[3])>>)}

InitImages ==
    /\ PipelineIdle
    /\ output_file = Absent
    /\ PromptsIdle
    /\ MetadataIdle
    /\ ipc = "ready"
    /\ input_dir \in InputDirs
    /\ results_file \in ResultFiles
    /\ image_results = <<>>
    /\ image_files = <<>>
    /\ processed_images = {}
    /\ file_at_start = NoFile
    /\ attempted = <<>>
    /\ runs = 0

\* Lines 232-258.
StartProcessImages ==
    /\ ipc \in {"ready", "returned"}
    /\ runs < MaxRuns
    /\ runs' = runs + 1
    /\ ipc' = "looping"
    /\ LET existing == load_existing(results_file, find_images(input_dir))
       IN  /\ image_results' = existing.results
           /\ image_files' = existing.image_files
    /\ file_at_start' = results_file
    /\ attempted' = <<>>
    /\ UNCHANGED <<input_dir, results_file, processed_images,
                   tvars, pvars, cvars, gvars, mvars>>

\* One pass of the loop, lines 261-311. resize_image returns None for a file
\* PIL cannot open and the image is skipped. Otherwise the processed image
\* is saved, the analysis is requested, the record is appended and the
\* results file is rewritten; an exception at any of these steps is caught
\* and the loop goes on with the next image. The timestamp is the number of
\* the run.
ProcessImage ==
    /\ ipc = "looping"
    /\ image_files # <<>>
    /\ LET image_path == Head(image_files)
       IN  /\ attempted' = Append(attempted, image_path)
           /\ image_files' = Tail(image_files)
           /\ IF ~input_dir[image_path]
              THEN UNCHANGED <<image_results, results_file, processed_images>>
              ELSE \/ UNCHANGED <<image_results, results_file, processed_images>>
                   \/ /\ processed_images' =
                            processed_images \cup {processed_path(image_path)}
                      /\ IF call_raises(analyze_parameters, analyze_arguments)
                         THEN UNCHANGED <<image_results, results_file>>
                         ELSE \E analysis \in AnalysisTexts :
                                /\ image_results' =
                                      Append(image_results,
                                             result_record(image_path, analysis, runs))
                                /\ \/ results_file' = JsonText(image_results')
                                   \/ UNCHANGED results_file
    /\ UNCHANGED <<ipc, input_dir, file_at_start, runs,
                   tvars, pvars, cvars, gvars, mvars>>

\* Lines 313-317.
ReturnResults ==
    /\ ipc = "looping"
    /\ image_files = <<>>
    /\ ipc' = "returned"
    /\ UNCHANGED <<input_dir, results_file, image_results, image_files, processed_images,
                   file_at_start, attempted, runs,
                   tvars, pvars, cvars, gvars, mvars>>

NextImages ==
    \/ StartProcessImages
    \/ ProcessImage
    \/ ReturnResults

SpecImages == InitImages /\ [][NextImages]_vars
(***************************************************************************)
(* The clean_text harness                                                  *)
(***************************************************************************)

AppendFragment(f) ==
    /\ tpc = "input"
    /\ Len(frags) < MaxFrags
    /\ frags' = Append(frags, f)
    /\ UNCHANGED <<tpc, cleaned, recleaned, pvars, cvars, ovars>>

CleanText ==
    /\ tpc = "input"
    /\ cleaned' = clean_text(text)
    /\ tpc' = "cleaned"
    /\ UNCHANGED <<frags, recleaned, pvars, cvars, ovars>>

CleanAgain ==
    /\ tpc = "cleaned"
    /\ recleaned' = clean_text(cleaned)
    /\ tpc' = "recleaned"
    /\ UNCHANGED <<frags, cleaned, pvars, cvars, ovars>>

NextText ==
    \/ \E f \in Fragments : AppendFragment(f)
    \/ CleanText
    \/ CleanAgain

InitText == Init /\ output_file = Absent

SpecText == InitText /\ [][NextText]_vars

(***************************************************************************)
(* Claims about clean_text (checked under SpecText)                        *)
(***************************************************************************)

\* C1: normalisation is idempotent: cleaning an already cleaned text gives
\* the same text, for every input (upper-case, tab-separated and repeated
\* conjunctions included).
C1_Idempotent == tpc = "recleaned" => recleaned = cleaned

\* A phrase of items joined by " and ": word, " and ", word, ...
IsConjunctionPhrase(fs) ==
    /\ Len(fs) % 2 = 1
    /\ \A i \in 1..Len(fs) :
        IF i % 2 = 1 THEN fs[i] \in WordFragments ELSE fs[i] = AndToken

PhraseItems(fs) == [j \in 1..((Len(fs) + 1) \div 2) |-> fs[2 * j - 1]]

\* C2: a phrase of n items joined by " and " is cleaned to the n items joined
\* by ", ": every " and " between the items has been replaced.
C2_ConjunctionFlattening ==
    (tpc # "input" /\ IsConjunctionPhrase(frags)) =>
        cleaned = join(CommaSpace, PhraseItems(frags))

C2_Witness ==
    /\ tpc = "cleaned"
    /\ IsConjunctionPhrase(frags)
    /\ Len(frags) >= 5
    /\ \E i \in 1..Len(frags) : frags[i] = <<"b">>

\* The canonical form of a cleaned text, character by character.
Canonical(s) ==
    /\ \A i \in 1..Len(s) : s[i] \notin UpperCase /\ s[i] # "\t"
    /\ \A i \in 1..(Len(s) - 1) : ~(s[i] = " " /\ s[i + 1] = " ")
    /\ s # <<>> => (s[1] \notin {" ", ","} /\ s[Len(s)] \notin {" ", ","})
    /\ \A i \in 1..Len(s) :
        s[i] = "," =>
            /\ i > 1 /\ s[i - 1] \notin {" ", ","}
            /\ i + 2 <= Len(s) /\ s[i + 1] = " " /\ s[i + 2] \notin {" ", ","}

\* C3: the result of clean_text is lower-case, has no whitespace other than
\* single spaces, no empty or untrimmed comma-separated segment, its segments
\* joined by exactly ", "; an input of only whitespace and commas gives "".
C3_CanonicalForm ==
    tpc # "input" =>
        /\ Canonical(cleaned)
        /\ (\A i \in 1..Len(text) : text[i] \in Whitespace \cup {","}) => cleaned = <<>>

C3_Witness ==
    /\ tpc = "cleaned"
    /\ cleaned # <<>>
    /\ \E i \in 1..Len(text) : text[i] \in UpperCase
    /\ \E i \in 1..(Len(text) - 1) : text[i] \in Whitespace /\ text[i + 1] \in Whitespace
    /\ \E i \in 1..(Len(text) - 1) : text[i] = "," /\ text[i + 1] = ","

(***************************************************************************)
(* Claims about the pipeline (checked under Spec)                          *)
(***************************************************************************)

Digits == <<"0", "1", "2", "3", "4", "5", "6", "7", "8", "9">>

ExpectedKeys(k) == {Digits[c + 1] : c \in 0..(k - 1)}

EmptySummary ==
    [size |-> 0, common_labels |-> <<>>, common_styles |-> <<>>,
     common_elements |-> <<>>, common_materials |-> <<>>, common_moods |-> <<>>,
     common_colors |-> <<>>, sample_paths |-> <<>>]

EmptyClusters == {c \in 0..(n_clusters - 1) : \A i \in 1..Len(cluster_labels) : cluster_labels[i] # c}

\* C4: the summaries analyze_clusters returns have exactly the cluster ids
\* 0..k-1, the persisted JSON has exactly the keys "0".."k-1", and a cluster
\* without members has size 0, empty common_* lists and no sample path.
C4_SummaryCompleteness ==
    /\ pc \in {"analyzed", "visualized", "done"} =>
         /\ DOMAIN cluster_summaries = 0..(n_clusters - 1)
         /\ \A c \in EmptyClusters : cluster_summaries[c] = EmptySummary
    /\ pc = "done" =>
         /\ output_file.status = "complete"
         /\ DOMAIN output_file.data = ExpectedKeys(n_clusters)
         /\ \A c \in EmptyClusters : output_file.data[Digits[c + 1]] = EmptySummary

C4_Witness ==
    /\ pc = "done"
    /\ n_clusters = 3
    /\ EmptyClusters # {}
    /\ Cardinality({features[i] : i \in 1..Len(features)}) < n_clusters

\* C5: for 1 <= k <= n the partitioner returns one label per matrix row, in
\* row order, each an integer in [0, k).
C5_PartitionCoverage ==
    pc \in {"clustered", "analyzed", "visualized", "done"} =>
        /\ n_clusters >= 1 /\ n_clusters <= Len(features)
        /\ DOMAIN cluster_labels = 1..Len(features)
        /\ Len(features) = Len(analysis_results)
        /\ \A i \in 1..Len(features) : cluster_labels[i] \in 0..(n_clusters - 1)

C5_Witness ==
    /\ pc = "clustered"
    /\ Len(features) = 3
    /\ n_clusters = 2
    /\ Range(cluster_labels) = {0, 1}

\* C6: a record whose analysis is not valid JSON or lacks a required key is
\* skipped and the run goes on: no run dies of such a record.
C6_MalformedRecordsSkipped ==
    ~(pc = "failed" /\ err \in {"JSONDecodeError", "KeyError"})

\* C7: with k < 1 or k greater than the number of records, the run fails
\* before any attempt to fit the clustering model.
C7_InvalidClusterCountFailsFast ==
    (pc \notin {"start", "parsed"}
        /\ (n_clusters < 1 \/ n_clusters > Len(analysis_results))) => ~fit_called

\* C8: an attribute whose value is empty after normalisation in every record
\* does not make extract_features raise.
DegenerateAttribute(feature) ==
    /\ analysis_results # <<>>
    /\ \A i \in 1..Len(analysis_results) :
         /\ extractable(analysis_results[i])
         /\ clean_text(json_loads(analysis_results[i].analysis)[feature]) = <<>>

C8_DegenerateVocabularyDoesNotRaise ==
    (pc = "failed" /\ \E k \in 1..Len(vectorizers) : DegenerateAttribute(vectorizers[k]))
        => err # "ValueError: empty vocabulary"

\* C9: the output file is never left truncated or partially written: it is
\* the complete earlier file or the complete new one.
C9_NoPartialOutput == output_file.status \in {"absent", "complete"}

IsPrefix(p, s) == Len(p) <= Len(s) /\ SubSeq(s, 1, Len(p)) = p

\* The number of feature names of one attribute.
VocabularySize(feature) ==
    Cardinality({j \in 1..Len(feature_names) :
                    IsPrefix(FeatureChars[feature] \o <<"_">>, feature_names[j])})

\* C10: every row of the matrix extract_features returns has the same length,
\* the sum of the five vocabulary sizes, and each vocabulary has as many
\* terms as its corpus, at most max_features.
C10_VectorDimensionality ==
    pc = "extracted" =>
        LET corpus == corpora(analysis_results)
        IN  /\ Len(features) = Len(analysis_results)
            /\ \A i \in 1..Len(features) :
                 Len(features[i]) =
                    Sum([k \in 1..Len(vectorizers) |-> VocabularySize(vectorizers[k])])
            /\ \A k \in 1..Len(vectorizers) :
                 /\ VocabularySize(vectorizers[k]) <= max_features[vectorizers[k]]
                 /\ VocabularySize(vectorizers[k]) =
                        Min(Cardinality(corpus_terms(corpus[k])), max_features[vectorizers[k]])

C10_Witness ==
    /\ pc = "extracted"
    /\ Cardinality(corpus_terms(corpora(analysis_results)[4])) > max_features.color_palette
    /\ VocabularySize("color_palette") = max_features.color_palette

(***************************************************************************)
(* Claims about the feature matrix and its names                           *)
(***************************************************************************)

\* The position in vectorizers of the attribute a feature name is prefixed with.
NameAttribute(name) ==
    CHOOSE k \in 1..Len(vectorizers) : IsPrefix(FeatureChars[vectorizers[k]] \o <<"_">>, name)

\* The term that follows the attribute prefix of a feature name.
NameTerm(name) ==
    SubSeq(name, Len(FeatureChars[vectorizers[NameAttribute(name)]]) + 2, Len(name))

\* C11: extract_features returns as many feature names as the matrix has
\* columns; the name at position j is "<attribute>_<term>", column j holds the
\* weighted score of that term of that attribute for every record, and the
\* attributes of the names follow the order of vectorizers.
C11_FeatureNamesAlignWithColumns ==
    pc = "extracted" =>
        LET corpus == corpora(analysis_results)
        IN  /\ \A i \in 1..Len(features) : Len(features[i]) = Len(feature_names)
            /\ \A j \in 1..Len(feature_names) :
                 /\ \E k \in 1..Len(vectorizers) :
                      IsPrefix(FeatureChars[vectorizers[k]] \o <<"_">>, feature_names[j])
                 /\ LET k == NameAttribute(feature_names[j])
                        term == NameTerm(feature_names[j])
                    IN  /\ term \in corpus_terms(corpus[k])
                        /\ \A i \in 1..Len(features) :
                             features[i][j] =
                                weighted_tfidf(corpus[k][i], term, corpus[k],
                                               feature_weights[vectorizers[k]])
            /\ \A j1, j2 \in 1..Len(feature_names) :
                 j1 < j2 => NameAttribute(feature_names[j1]) <= NameAttribute(feature_names[j2])

C11_Witness ==
    /\ pc = "extracted"
    /\ Len(features) = 3
    /\ features[1] # features[2]
    /\ Len(feature_names) > 10
    /\ NameAttribute(feature_names[1]) = 1
    /\ NameAttribute(feature_names[Len(feature_names)]) = 5

(***************************************************************************)
(* Claims about the alignment of records, rows, labels and summaries       *)
(***************************************************************************)

\* The clusters whose sample_paths hold the path of record i.
ClustersHolding(i) ==
    {c \in DOMAIN cluster_summaries :
        \E s \in 1..Len(cluster_summaries[c].sample_paths) :
            cluster_summaries[c].sample_paths[s] = analysis_results[i].original_path}

\* analyze_clusters places record i in the cluster labels[i] and in no
\* other: its values are in that cluster's collections, and its path is a
\* sample of that cluster if at most two records labelled like it precede it,
\* and of no other cluster in any case.
MembershipFollowsLabels ==
    pc \in {"analyzed", "visualized", "done"} =>
        \A i \in 1..Len(analysis_results) :
            LET summary == cluster_summaries[cluster_labels[i]]
                analysis == json_loads(analysis_results[i].analysis)
                earlier == {j \in 1..(i - 1) : cluster_labels[j] = cluster_labels[i]}
            IN  /\ ClustersHolding(i) \subseteq {cluster_labels[i]}
                /\ Cardinality(earlier) < 3 => ClustersHolding(i) = {cluster_labels[i]}
                /\ analysis.mood \in Range(summary.common_moods)
                /\ analysis.short_descriptive_label \in Range(summary.common_labels)

\* Row i holds, in every column, the count of the column's term in record i's
\* own normalised text of the column's attribute.
RowCountsFromOwnRecord ==
    pc = "extracted" =>
        /\ Len(features) = Len(analysis_results)
        /\ \A i \in 1..Len(features) : \A j \in 1..Len(feature_names) :
             features[i][j].tf =
                term_count(NameTerm(feature_names[j]),
                           tokenize(clean_text(
                               json_loads(analysis_results[i].analysis)
                                   [vectorizers[NameAttribute(feature_names[j])]])))

\* C12 as stated: one row per record in input order, row i derived only from
\* record i, and record i a member of the cluster labels[i]. A row derived
\* from record i alone has, in particular, the columns of the row that
\* extract_features returns for record i alone.
C12_RowFromOwnRecordOnly ==
    /\ MembershipFollowsLabels
    /\ pc = "extracted" =>
         /\ Len(features) = Len(analysis_results)
         /\ \A i \in 1..Len(features) :
              LET alone == corpora(<<analysis_results[i]>>)
              IN  ~empty_vocabulary(alone) =>
                     \E vocab \in fitted_vocabularies(alone) :
                         Len(features[i]) = Len(combined_matrix(alone, vocab, 1)[1])

\* C12, amended: one row per record in input order; the term counts of row i
\* are those of record i's own texts, while the columns (the vocabulary) and
\* the document frequencies of the scores come from the whole corpus; record
\* i is a member of the cluster labels[i] and of no other.
C12_PositionalAlignment ==
    /\ RowCountsFromOwnRecord
    /\ MembershipFollowsLabels

C12_Witness ==
    /\ pc = "done"
    /\ Len(analysis_results) = 3
    /\ cluster_labels = <<1, 0, 1>>
    /\ features[1] # features[3]
    /\ \E j \in 1..Len(feature_names) : features[1][j].df = 2 /\ features[1][j].tf = 1

\* The records labelled with cluster c, as positions in analysis_results.
Members(c) == {i \in 1..Len(cluster_labels) : cluster_labels[i] = c}

\* C13: for every cluster id c in [0, k), summary[c].size is the number of
\* records labelled c, in the returned summaries and in the persisted file;
\* the k sizes sum to the number of records passed to analyze_clusters.
C13_SizeIsMemberCount ==
    /\ pc \in {"analyzed", "visualized", "done"} =>
         /\ \A c \in 0..(n_clusters - 1) :
              cluster_summaries[c].size = Cardinality(Members(c))
         /\ Sum([c \in 1..n_clusters |-> cluster_summaries[c - 1].size])
                = Len(analysis_results)
    /\ pc = "done" =>
         \A c \in 0..(n_clusters - 1) :
             output_file.data[key_str(c)].size = Cardinality(Members(c))

C13_Witness ==
    /\ pc = "done"
    /\ n_clusters = 3
    /\ cluster_summaries[0].size = 2
    /\ cluster_summaries[1].size = 0
    /\ cluster_summaries[2].size = 1
    /\ Len(cluster_summaries[0].common_labels) = 1

\* The common_* keys of a summary and the analysis attribute each is built from.
CommonKeys ==
    <<"common_labels", "common_styles", "common_elements", "common_materials",
      "common_moods", "common_colors">>

CommonSource ==
    [common_labels |-> "short_descriptive_label",
     common_styles |-> "architectural_style",
     common_elements |-> "futuristic_elements",
     common_materials |-> "dominant_materials",
     common_moods |-> "mood",
     common_colors |-> "color_palette"]

\* The raw values of one attribute among the members of cluster c.
MemberValues(c, attribute) ==
    {json_loads(analysis_results[i].analysis)[attribute] : i \in Members(c)}

\* C14: in every cluster summary, each common_* collection holds every
\* distinct attribute value of the cluster's members exactly once, so it is
\* never longer than size.
C14_Deduplication ==
    pc \in {"analyzed", "visualized", "done"} =>
        \A c \in 0..(n_clusters - 1) : \A x \in 1..Len(CommonKeys) :
            LET collection == cluster_summaries[c][CommonKeys[x]]
            IN  /\ Range(collection) = MemberValues(c, CommonSource[CommonKeys[x]])
                /\ Len(collection) = Cardinality(Range(collection))
                /\ Len(collection) <= cluster_summaries[c].size

C14_Witness ==
    /\ pc = "done"
    /\ \E c \in 0..(n_clusters - 1) :
         /\ cluster_summaries[c].size = 2
         /\ cluster_summaries[c].common_moods = << <<"h", "o", "p", "e", "f", "u", "l">> >>
         /\ Len(cluster_summaries[c].common_styles) = 2

\* C15: every element of a common_* collection is the unmodified string of
\* the collection's own attribute in some member record, and members whose
\* raw values differ, even if only in case or conjunction style, contribute
\* distinct elements.
C15_RawValues ==
    pc \in {"analyzed", "visualized", "done"} =>
        \A c \in 0..(n_clusters - 1) : \A x \in 1..Len(CommonKeys) :
            LET collection == cluster_summaries[c][CommonKeys[x]]
                attribute == CommonSource[CommonKeys[x]]
            IN  /\ \A e \in 1..Len(collection) :
                     \E i \in Members(c) :
                         collection[e] = json_loads(analysis_results[i].analysis)[attribute]
                /\ \A i, j \in Members(c) :
                     LET vi == json_loads(analysis_results[i].analysis)[attribute]
                         vj == json_loads(analysis_results[j].analysis)[attribute]
                     IN  vi # vj =>
                            \E e, g \in 1..Len(collection) :
                                e # g /\ collection[e] = vi /\ collection[g] = vj

C15_Witness ==
    /\ pc = "done"
    /\ \E c \in 0..(n_clusters - 1) :
         LET materials == cluster_summaries[c].common_materials
         IN  /\ Len(materials) = 2
             /\ materials[1] # materials[2]
             /\ clean_text(materials[1]) = clean_text(materials[2])
             /\ \E e \in 1..2 : \E u \in 1..Len(materials[e]) : materials[e][u] = "C"

\* The positions of the records labelled c, in record order.
MemberPositions(c) ==
    SelectSeq([i \in 1..Len(cluster_labels) |-> i], LAMBDA i : cluster_labels[i] = c)

\* C16: for every cluster, sample_paths has length min(3, size) and holds the
\* original_path of the first up-to-3 records labelled with the cluster, in
\* record order.
C16_SamplePathsPrefix ==
    pc = "analyzed" =>
        \A c \in 0..(n_clusters - 1) :
            LET positions == MemberPositions(c)
                samples == cluster_summaries[c].sample_paths
            IN  /\ Len(samples) = Min(3, cluster_summaries[c].size)
                /\ Len(samples) <= Len(positions)
                /\ \A s \in 1..Len(samples) :
                     samples[s] = analysis_results[positions[s]].original_path

C16_Witness ==
    /\ pc = "analyzed"
    /\ cluster_labels = <<0, 1, 0, 0, 0>>
    /\ cluster_summaries[0].size = 4
    /\ cluster_summaries[0].sample_paths = <<"img1.jpg", "img3.jpg", "img4.jpg">>
    /\ cluster_summaries[1].sample_paths = <<"img2.jpg">>

(***************************************************************************)
(* Claims about perform_clustering (C17 is checked under SpecCluster)      *)
(***************************************************************************)

C18_FullyReplaced ==
    pc = "done" =>
        /\ output_file.status = "complete"
        /\ DOMAIN output_file.data = ExpectedKeys(n_clusters)
        /\ \A c \in 0..(n_clusters - 1) :
             output_file.data[key_str(c)] = cluster_summaries[c]
        /\ \A key \in DOMAIN overwritten.data :
             key \notin ExpectedKeys(n_clusters) => key \notin DOMAIN output_file.data

C18_Witness ==
    /\ pc = "done"
    /\ overwritten = PriorRun
    /\ DOMAIN overwritten.data = {"0", "1", "2"}
    /\ n_clusters = 2
    /\ DOMAIN output_file.data = {"0", "1"}
    /\ output_file.data["0"].size = 2

\* The order of the stages of main.
Stages ==
    <<"start", "parsed", "loaded", "extracted", "clustered", "analyzed",
      "visualized", "done">>

StageIndex(stage) == CHOOSE s \in 1..Len(Stages) : Stages[s] = stage

\* Before a stage has run, its result and the results of the later stages do
\* not exist; once clustering starts the matrix has the columns of all five
\* attributes.
ResultsFollowStages ==
    /\ pc \in {"start", "parsed", "loaded"} => features = <<>> /\ feature_names = <<>>
    /\ pc \in {"start", "parsed", "loaded", "extracted"} =>
         cluster_labels = <<>> /\ ~fit_called
    /\ pc \in {"start", "parsed", "loaded", "extracted", "clustered"} =>
         cluster_summaries = <<>>
    /\ pc \in {"start", "parsed", "loaded", "extracted", "clustered", "analyzed",
               "visualized"} =>
         output_file \in {Absent, PriorRun} /\ overwritten = Absent
    /\ pc \in {"clustered", "analyzed", "visualized", "done"} =>
         /\ \A k \in 1..Len(vectorizers) : VocabularySize(vectorizers[k]) >= 1
         /\ Len(cluster_labels) = Len(features)
    /\ pc \in {"analyzed", "visualized", "done"} =>
         DOMAIN cluster_summaries = 0..(n_clusters - 1)
    /\ pc = "done" => output_file = Complete(cluster_summaries)

\* A step of a run moves to the next stage or ends the run with an exception.
StepsForward ==
    pc' # pc =>
        /\ pc \in Range(Stages)
        /\ \/ pc' = "failed"
           \/ pc' \in Range(Stages) /\ StageIndex(pc') = StageIndex(pc) + 1

\* C19: in every run the stages follow one another in the order extraction,
\* clustering, summarization, persistence: each starts only when the one
\* before it has completed, and no result of a later stage exists, to be
\* read, while an earlier stage runs.
C19_StagesRunForward == []ResultsFollowStages /\ [][StepsForward]_vars

C19_Witness ==
    /\ pc = "done"
    /\ Len(features) = 3
    /\ Len(cluster_labels) = 3
    /\ DOMAIN cluster_summaries = 0..1
    /\ output_file = Complete(cluster_summaries)
    /\ overwritten = PriorRun

(***************************************************************************)
(* Claims about the weights                                                *)
(***************************************************************************)

\* The weights the claim names, in tenths, in the order of vectorizers.
ClaimedWeights == <<15, 15, 12, 7, 7>>

\* The entry of the unweighted TF-IDF matrix of one attribute for a record's
\* tokens and a term: what determines the score.
UnweightedEntry(tokens, term, corpus) ==
    [tf |-> term_count(term, tokens), df |-> document_frequency(term, corpus)]

\* C20: every entry of an attribute's block is the entry of the unweighted
\* TF-IDF matrix of that attribute multiplied by the attribute's weight: 1.5,
\* 1.5, 1.2, 0.7 and 0.7 in the order of the attributes.
C20_WeightScaling ==
    pc = "extracted" =>
        LET corpus == corpora(analysis_results)
        IN  \A i \in 1..Len(features) : \A j \in 1..Len(feature_names) :
                LET k == NameAttribute(feature_names[j])
                    unweighted ==
                        UnweightedEntry(corpus[k][i], NameTerm(feature_names[j]), corpus[k])
                IN  features[i][j] =
                        [tf |-> unweighted.tf, df |-> unweighted.df,
                         weight |-> ClaimedWeights[k]]

C20_Witness ==
    /\ pc = "extracted"
    /\ Len(features) = 2
    /\ \E j \in 1..Len(feature_names) :
         /\ vectorizers[NameAttribute(feature_names[j])] = "mood"
         /\ features[1][j] = [tf |-> 1, df |-> 1, weight |-> 12]
         /\ features[2][j] = [tf |-> 0, df |-> 1, weight |-> 12]
    /\ \E j \in 1..Len(feature_names) :
         /\ vectorizers[NameAttribute(feature_names[j])] = "color_palette"
         /\ features[1][j].weight = 7

(***************************************************************************)
(* The end-to-end scenario (checked under SpecScenario)                    *)
(***************************************************************************)

\* The positions of the records that carry the analysis of record i.
SameAnalysis(i) ==
    {j \in 1..Len(analysis_results) : analysis_results[j].analysis = analysis_results[i].analysis}

\* The lengths of the five attribute collections of a summary.
AttributeCollectionSizes(summary) ==
    {Len(summary.common_styles), Len(summary.common_elements), Len(summary.common_moods),
     Len(summary.common_colors), Len(summary.common_materials)}

\* C21: six records, two of one attribute set and four of another with no
\* term in common, run with k = 2: the run does not fail before saving, the
\* two clusters have sizes 2 and 4, each holds the records of one attribute
\* set only, and each attribute collection of each cluster has one element.
C21_EndToEndScenario ==
    /\ pc = "failed" => err \in {"OSError: open", "OSError: write"}
    /\ pc \in {"clustered", "analyzed", "visualized", "done"} =>
         \A i \in 1..Len(analysis_results) : Members(cluster_labels[i]) = SameAnalysis(i)
    /\ pc \in {"analyzed", "visualized", "done"} =>
         /\ {cluster_summaries[0].size, cluster_summaries[1].size} = {2, 4}
         /\ \A c \in 0..1 : AttributeCollectionSizes(cluster_summaries[c]) = {1}
    /\ pc = "done" =>
         /\ {output_file.data["0"].size, output_file.data["1"].size} = {2, 4}
         /\ \A key \in {"0", "1"} : AttributeCollectionSizes(output_file.data[key]) = {1}

C21_Witness ==
    /\ pc = "done"
    /\ Len(analysis_results) = 6
    /\ cluster_labels = <<1, 0, 0, 1, 0, 0>>
    /\ output_file.data["1"].size = 2
    /\ output_file.data["0"].size = 4
    /\ output_file.data["1"].sample_paths = <<"img1.jpg", "img4.jpg">>
    /\ output_file.data["0"].sample_paths = <<"img2.jpg", "img3.jpg", "img5.jpg">>

(***************************************************************************)
(* Claims about the persisted JSON object                                  *)
(***************************************************************************)

\* The characters of the attribute texts.
Characters ==
    Range(LowerCaseLetters) \cup Range(UpperCaseLetters) \cup Whitespace \cup {","}

SummaryFields ==
    {"size", "common_labels", "common_styles", "common_elements", "common_materials",
     "common_moods", "common_colors", "sample_paths"}

\* C22: every value of the persisted JSON object has exactly the fields size
\* (an integer), the six common_* fields (arrays of strings) and sample_paths
\* (an array of at most 3 strings), for every cluster, empty ones included.
C22_OutputSchema ==
    pc = "done" =>
        \A key \in DOMAIN output_file.data :
            LET value == output_file.data[key]
            IN  /\ DOMAIN value = SummaryFields
                /\ value.size \in Nat
                /\ \A x \in 1..Len(CommonKeys) :
                     /\ DOMAIN value[CommonKeys[x]] = 1..Len(value[CommonKeys[x]])
                     /\ \A e \in 1..Len(value[CommonKeys[x]]) :
                          value[CommonKeys[x]][e] \in Seq(Characters)
                /\ DOMAIN value.sample_paths = 1..Len(value.sample_paths)
                /\ Len(value.sample_paths) <= 3
                /\ \A s \in 1..Len(value.sample_paths) : value.sample_paths[s] \in STRING

C22_Witness ==
    /\ pc = "done"
    /\ DOMAIN output_file.data = {"0", "1", "2"}
    /\ \E key \in DOMAIN output_file.data : output_file.data[key].size = 0
    /\ \E key \in DOMAIN output_file.data :
         /\ output_file.data[key].size = 2
         /\ Len(output_file.data[key].common_styles) = 1
         /\ Len(output_file.data[key].sample_paths) = 2


(***************************************************************************)
(* Claims about the per-attribute vocabularies                             *)
(***************************************************************************)

\* The analyzed values of attribute vectorizers[k] of every record, in order.
OwnCorpus(results, k) == analyzed(feature_texts(results, vectorizers[k]))

\* The columns of features that belong to attribute vectorizers[k].
BlockColumns(k) ==
    SelectSeq([j \in 1..Len(feature_names) |-> j],
              LAMBDA j : NameAttribute(feature_names[j]) = k)

BlockTerms(k) ==
    LET cols == BlockColumns(k)
    IN  [c \in 1..Len(cols) |-> NameTerm(feature_names[cols[c]])]

Block(k) ==
    LET cols == BlockColumns(k)
    IN  [i \in 1..Len(features) |-> [c \in 1..Len(cols) |-> features[i][cols[c]]]]

\* The record list with attribute vectorizers[a] of record i set to value.
Changed(results, i, a, value) ==
    [results EXCEPT ![i].analysis =
        [key \in DOMAIN results[i].analysis |->
            IF key = vectorizers[a] THEN value ELSE results[i].analysis[key]]]

\* The block of attribute vectorizers[k] that extract_features can return for
\* a corpus.
BlocksOf(corpus, k) ==
    {feature_matrix(corpus, sorted(kept), feature_weights[vectorizers[k]]) :
        kept \in limit_features(corpus, max_features[vectorizers[k]])}

\* C23: the block of an attribute is computed from the normalized values of
\* that attribute alone: its terms are terms of those values, a term that
\* occurs only in another attribute's values has no column in it, and
\* changing another attribute's value in any record leaves it a block of the
\* changed input.
C23_IndependentVocabularies ==
    pc = "extracted" =>
        /\ \A k \in 1..Len(vectorizers) :
             LET own == OwnCorpus(analysis_results, k)
                 terms == BlockTerms(k)
             IN  /\ Range(terms) \in limit_features(own, max_features[vectorizers[k]])
                 /\ Block(k) = feature_matrix(own, terms, feature_weights[vectorizers[k]])
                 /\ \A a \in 1..Len(vectorizers) :
                      a # k =>
                        \A t \in corpus_terms(OwnCorpus(analysis_results, a)) :
                            t \notin corpus_terms(own) => t \notin Range(terms)
        /\ LET blocks == <<Block(1), Block(2), Block(3), Block(4), Block(5)>>
           IN  \A a \in 1..Len(vectorizers) : \A i \in 1..Len(analysis_results) :
                  \A value \in {Brutal[vectorizers[a]], Solar[vectorizers[a]]} :
                      LET corpus == corpora(Changed(analysis_results, i, a, value))
                      IN  \A k \in 1..Len(vectorizers) :
                              a # k => blocks[k] \in BlocksOf(corpus[k], k)

C23_Witness ==
    /\ pc = "extracted"
    /\ Len(analysis_results) = 3
    /\ json_loads(analysis_results[1].analysis) = Solar
    /\ json_loads(analysis_results[2].analysis) = Brutal
    /\ json_loads(analysis_results[3].analysis) = NoMood
    /\ Len(BlockColumns(1)) = 2
    /\ Len(BlockColumns(3)) = 2
    /\ Len(BlockColumns(5)) = 3

(***************************************************************************)
(* Claims about the standardization of the feature matrix                  *)
(***************************************************************************)

\* The mean of column j of the matrix handed to k-means: the column mean is
\* subtracted from every entry.
ScaledMean(j) == IF scaled_features[1][j].with_mean THEN "zero" ELSE "mean"

\* The variance of column j of the matrix handed to k-means: var_ / scale_^2.
ScaledVariance(j) ==
    LET entry == scaled_features[1][j]
    IN  IF entry.var_ = "zero" THEN "zero"
        ELSE IF entry.scale_ = "std" THEN "unit" ELSE "unscaled"

\* C24 as stated: every column of the matrix handed to k-means has mean zero
\* and unit variance, the columns whose values are identical across all
\* records included.
C24_UnitVarianceEveryColumn ==
    pc = "clustered" =>
        \A j \in Columns(scaled_features) :
            ScaledMean(j) = "zero" /\ ScaledVariance(j) = "unit"

\* C24, amended: the matrix handed to k-means has one entry per entry of the
\* feature matrix; every column has mean zero; a column whose values differ
\* between records has unit variance, and a column whose values are
\* identical across all records has equal entries and variance zero.
C24_StandardizedColumns ==
    pc = "clustered" =>
        LET equal == equal_columns(features)
            differing == differing_columns(features)
        IN  /\ Len(scaled_features) = Len(features)
            /\ Columns(scaled_features) = Columns(features)
            /\ \A j \in Columns(scaled_features) :
                 /\ ScaledMean(j) = "zero"
                 /\ ScaledVariance(j) \in {"zero", "unit"}
                 /\ j \in differing => ScaledVariance(j) = "unit"
                 /\ j \in equal => ScaledVariance(j) = "zero"
                 /\ ScaledVariance(j) = "zero" =>
                       \A i \in 1..Len(scaled_features) :
                           scaled_features[i][j] = scaled_features[1][j]

C24_Witness ==
    /\ pc = "clustered"
    /\ Len(analysis_results) = 2
    /\ json_loads(analysis_results[1].analysis) = Solar
    /\ json_loads(analysis_results[2].analysis) = Rainbow
    /\ \E j \in equal_columns(features) : ScaledVariance(j) = "zero"
    /\ \E j \in differing_columns(features) : ScaledVariance(j) = "unit"
    /\ cluster_labels = <<0, 1>>

(***************************************************************************)
(* Claims about the output file of a run that fails                        *)
(***************************************************************************)

\* The exceptions save_results raises.
PersistenceErrors == {"OSError: open", "OSError: write"}

\* Until save_results runs, and after a failure of an earlier stage, the file
\* is the one the run found.
UntouchedBeforePersistence ==
    (pc # "done" /\ err \notin PersistenceErrors) =>
        output_file \in {Absent, PriorRun} /\ overwritten = Absent

\* The file is opened for writing only by the step that follows a successful
\* visualization.
WrittenAfterVisualization ==
    (output_file' # output_file \/ overwritten' # overwritten) => pc = "visualized"

\* C25: a run that fails in loading, feature extraction, clustering,
\* summarization or visualization leaves cluster_analysis_results.json as an
\* earlier run left it, and the file is written only after visualization has
\* succeeded.
C25_FailureLeavesPreviousOutput ==
    []UntouchedBeforePersistence /\ [][WrittenAfterVisualization]_vars

C25_Witness ==
    /\ pc = "failed"
    /\ err = "ValueError: n_components"
    /\ cluster_summaries # <<>>
    /\ Len(analysis_results) = 3
    /\ output_file = PriorRun
    /\ overwritten = Absent

(***************************************************************************)
(* Claims about the prompt stage (checked under SpecPrompts)               *)
(***************************************************************************)

\* C26: when the prompt stage has written cluster_prompts.json, the file
\* holds exactly one entry per cluster of cluster_analysis_results.json, keyed
\* "cluster_<id>", empty clusters included; each entry has the fields size,
\* name and prompt, size is that cluster's size, and this is so when a
\* response could not be parsed.
C26_PromptsPreserveClusters ==
    gpc = "saved" =>
        /\ prompts_file.status = "complete"
        /\ DOMAIN prompts_file.data =
              {"cluster_" \o cluster_id : cluster_id \in DOMAIN output_file.data}
        /\ Cardinality(DOMAIN prompts_file.data) = Cardinality(DOMAIN output_file.data)
        /\ \A cluster_id \in DOMAIN output_file.data :
             LET entry == prompts_file.data["cluster_" \o cluster_id]
             IN  /\ DOMAIN entry = {"size", "name", "prompt"}
                 /\ entry.size = output_file.data[cluster_id].size

C26_Witness ==
    /\ gpc = "saved"
    /\ output_file = SparseRun
    /\ DOMAIN prompts_file.data = {"cluster_0", "cluster_1", "cluster_2"}
    /\ prompts_file.data["cluster_0"].name = "Neon Canopy"
    /\ prompts_file.data["cluster_1"].size = 0
    /\ prompts_file.data["cluster_1"].name = "Parsing Error"
    /\ prompts_file.data["cluster_2"].size = 2

(***************************************************************************)
(* Claims about the metadata files                                         *)
(***************************************************************************)

\* C27 (checked under SpecFuture): after n successful transform_street_view
\* calls that started from a metadata file holding "[]",
\* urban_future_metadata.json holds exactly n entries, the entry of every
\* call, in call order.
C27_MetadataAccumulates ==
    module = "urban_future_generator" =>
        /\ metadata_file.kind = "json"
        /\ Len(metadata_file.value) = Len(transformed)
        /\ metadata_file.value = transformed

\* C28 (checked under SpecMetadata): after save_metadata(m) with a non-empty
\* list m, load_metadata() returns m and leaves the file as it was; and
\* load_metadata() returns [] only when the file was missing, empty, not
\* JSON, or held the empty list.
C28_MetadataRoundTrip ==
    mpc = "loaded" =>
        /\ (saved.called /\ saved.value # <<>>) =>
              /\ loaded.value = saved.value
              /\ metadata_file = file_before_load
        /\ loaded.value = <<>> =>
              \/ file_before_load.kind \in {"absent", "empty", "blank", "invalid"}
              \/ file_before_load = JsonText(<<>>)

(***************************************************************************)
(* Claims about process_images (checked under SpecImages)                  *)
(***************************************************************************)

\* No original_path is in two records of a list.
DistinctPaths(records) ==
    \A i, j \in 1..Len(records) :
        i # j => records[i].original_path # records[j].original_path

\* C29: a run of process_images does not take up an image whose
\* original_path is in a record of analysis_results.json when the run starts,
\* and no original_path is in more than one record of the file, in any run.
C29_ResumableWithoutDuplicates ==
    /\ file_at_start.kind = "json" =>
          \A i \in 1..Len(attempted) :
              attempted[i] \notin original_paths(file_at_start.value)
    /\ results_file.kind = "json" => DistinctPaths(results_file.value)
    /\ DistinctPaths(image_results)

C29_Witness ==
    /\ ipc = "returned"
    /\ runs = 2
    /\ DOMAIN input_dir = Range(ImagePaths)
    /\ \A image_path \in DOMAIN input_dir : input_dir[image_path]
    /\ results_file = JsonText(<<EarlierRecord(ImagePaths[1])>>)
    /\ attempted = <<ImagePaths[2], ImagePaths[3]>>

\* The records of a list that have the given original_path.
RecordsOf(records, image_path) ==
    {i \in 1..Len(records) : records[i].original_path = image_path}

\* C30: when a run of process_images has returned, the results and the
\* results file hold exactly one record for every image of the input
\* directory that was not in the file when the run started and that was
\* resized and saved.
C30_OneRecordPerImage ==
    ipc = "returned" =>
        \A image_path \in DOMAIN input_dir :
            (/\ input_dir[image_path]
             /\ processed_path(image_path) \in processed_images
             /\ image_path \notin original_paths(file_at_start.value)) =>
                /\ Cardinality(RecordsOf(image_results, image_path)) = 1
                /\ results_file.kind = "json"
                /\ Cardinality(RecordsOf(results_file.value, image_path)) = 1
====
